---- MODULE Spec2Model ----
(***************************************************************************)
(* A model of the listing synchronisation engine (scraper/run.py) and of   *)
(* the point-of-interest deduplicator (app/services/poi_service.py) of the *)
(* domowik backend.                                                        *)
(*                                                                         *)
(* Time is a discrete clock `now`; one tick stands for HoursPerTick hours. *)
(* A listing row carries the columns the synchronisation code reads or     *)
(* writes.  `address` stands for every column that upsert_listing sets     *)
(* only when it creates the row (url, address, city, bedrooms, bathrooms,  *)
(* sqft, property_type, listing_date, location): the code treats them all  *)
(* alike.                                                                  *)
(***************************************************************************)
EXTENDS Integers, Sequences, FiniteSets, Bags, TLC

VARIABLES
    now,            \* the wall clock, in ticks
    rows,           \* the listings of the session: flushed rows and pending objects
    lastCall,       \* the last operation called on the session and what it returned
    feed,           \* the listing source: the pages it serves
    pc,             \* run_scraper: where the pass is
    full_scrape,    \* run_scraper: its argument
    page,           \* run_scraper: the page being processed
    total_pages,    \* run_scraper: set from the total of page 1
    seen_mls_ids,   \* run_scraper: the mls_ids upserted in this pass
    new_listings,   \* run_scraper: the listings created in this pass (row numbers)
    listings,       \* run_scraper: the listings of the page fetched last
    idx,            \* run_scraper: position of the for loop in progress
    page_new_count, \* run_scraper: listings of this page that were new
    amenity_scores, \* the listing ids that have an AmenityScore row
    committed,      \* the tables as of the last commit of the pass's session
    events,         \* the log of the pass in progress, or of the last one
    points_of_interest, \* the rows of table points_of_interest; the id is the position
    listing_pois,   \* the rows of table listing_pois (a bag: the table has no order)
    poiCall,        \* the last upsert_pois_for_listing call and what it returned
    linked,         \* every (listing_id, osm_id, poi_id) a call has linked so far
    tx,             \* two database transactions that each run upsert_pois_for_listing
    tx_pois,        \* table points_of_interest as the two transactions share it
    tx_links,       \* table listing_pois as the two transactions share it
    loop_time,      \* the clock of the asyncio event loop, in ticks
    ready,          \* the event loop's queue of tasks ready to run (first in, first out)
    pending,        \* enrich: the coroutines not yet made into tasks
    task,           \* enrich: the three category queries, one task each
    enrich_pc,      \* enrich: where the call is
    called_at,      \* enrich: the loop time of the call
    data,           \* enrich: the AmenityData it returns
    completion,     \* the categories in the order their tasks finished
    score_arg,      \* calculate_walkability_score: its argument
    score,          \* calculate_walkability_score: what it returned
    scored,         \* calculate_walkability_score has returned
    raw_el,         \* _extract_geometry: its argument, an Overpass element
    extraction,     \* _extract_geometry: what it returned, or that it raised
    extracted,      \* _extract_geometry has ended
    response,       \* get_nearby_*: the elements _query_overpass returned
    nearby_of,      \* get_nearby_*: which of the three is called
    nearby,         \* get_nearby_*: the list returned, or that it raised
    nearby_done,    \* get_nearby_* has ended
    fetch_call,     \* fetch_page / fetch_single: the call and its argument
    fetch_pc,       \* fetch_page / fetch_single: where the call is
    fetch_out,      \* fetch_page / fetch_single: how the call ended
    total,          \* run_scraper's page loop: the total fetch_page returned
    page_size       \* run_scraper's page loop: len(listings) of the page fetched last

storeVars == <<now, rows, lastCall>>

runVars ==
    <<feed, pc, full_scrape, page, total_pages, seen_mls_ids, new_listings,
      listings, idx, page_new_count, amenity_scores, committed, events>>

poiVars == <<points_of_interest, listing_pois, poiCall, linked>>

txVars == <<tx, tx_pois, tx_links>>

enrichVars == <<loop_time, ready, pending, task, enrich_pc, called_at, data, completion>>

scoreVars == <<score_arg, score, scored>>

geomVars == <<raw_el, extraction, extracted>>

nearbyVars == <<response, nearby_of, nearby, nearby_done>>

fetchVars == <<fetch_call, fetch_pc, fetch_out>>

loopVars == <<total, page_size>>

\* The calls that are followed on their own.
pureVars == <<scoreVars, geomVars, nearbyVars, fetchVars, loopVars>>

otherVars == <<txVars, enrichVars, pureVars>>

vars == <<storeVars, runVars, poiVars, otherVars>>

----------------------------------------------------------------------------
(* Bounds and program constants *)

MaxTime == 2

HoursPerTick == 48

DelistHours == 48

None == -1

MlsIds == {"R2900001", "R2900002"}

Prices == {500000, 550000}

Addresses == {"123 Test St", "456 Oak Ave"}

RawData == {"$500,000", "$550,000"}

\* _parse_listing reads the price out of the payload it keeps as raw_data.
parse_price(raw_data) == IF raw_data = "$500,000" THEN 500000 ELSE 550000

ScrapedListing ==
    {s \in [mls_id : MlsIds, price : Prices, address : Addresses, raw_data : RawData] :
        s.price = parse_price(s.raw_data)}

Drift == {0, 1}

----------------------------------------------------------------------------
(* The session and the listings table *)

\* NewListing with raw_data left out of the constructor call.
NewListing_no_raw_data(scraped) ==
    [mls_id     |-> scraped.mls_id,
     address    |-> scraped.address,
     price      |-> scraped.price,
     raw_data   |-> "",
     status     |-> "active",
     first_seen |-> None,
     last_seen  |-> None,
     flushed    |-> FALSE]

\* Listing(...): the object upsert_listing builds for an mls_id it did not find.
\* first_seen and last_seen are not passed: they stay unset until the INSERT.
NewListing(scraped) ==
    [mls_id     |-> scraped.mls_id,
     address    |-> scraped.address,
     price      |-> scraped.price,
     raw_data   |-> scraped.raw_data,
     status     |-> "active",
     first_seen |-> None,
     last_seen  |-> None,
     flushed    |-> FALSE]

HasPending(rs) == \E i \in DOMAIN rs : ~rs[i].flushed

\* flush of a session that never sends its pending objects (autoflush off).
flush_nothing(rs, t1, t2) == rs

\* The flush of the session (autoflush before a query, or commit): every pending
\* object is INSERTed, and the column defaults first_seen = utc_now() and
\* last_seen = utc_now() are evaluated then, one clock read each (t1, then t2).
flush(rs, t1, t2) ==
    [i \in DOMAIN rs |->
        IF rs[i].flushed THEN rs[i]
        ELSE [rs[i] EXCEPT !.flushed = TRUE, !.first_seen = t1, !.last_seen = t2]]

\* select(Listing).where(Listing.mls_id == scraped.mls_id): the rows of the table.
select_by_mls_id(rs, mls_id) ==
    {i \in DOMAIN rs : rs[i].flushed /\ rs[i].mls_id = mls_id}

\* update_existing without the reactivation of lines 36-37.
update_existing_keep_status(row, scraped, t) ==
    [row EXCEPT !.price = scraped.price,
                !.last_seen = t,
                !.raw_data = scraped.raw_data]

\* update_existing that refreshes the descriptive columns too.
update_existing_all_columns(row, scraped, t) ==
    [row EXCEPT !.price = scraped.price,
                !.address = scraped.address,
                !.last_seen = t,
                !.raw_data = scraped.raw_data,
                !.status = IF row.status = "delisted" THEN "active" ELSE row.status]

\* The branch of upsert_listing taken for a row that exists.
update_existing(row, scraped, t) ==
    [row EXCEPT !.price = scraped.price,
                !.last_seen = t,
                !.raw_data = scraped.raw_data,
                !.status = IF row.status = "delisted" THEN "active" ELSE row.status]

\* upsert_listing(session, scraped), after the autoflush of its query, at clock t.
\* scalar_one_or_none() raises when the query returns several rows.
upsert_listing(rs, scraped, t) ==
    LET found == select_by_mls_id(rs, scraped.mls_id)
    IN  IF Cardinality(found) > 1
        THEN [rows |-> rs, is_new |-> FALSE, raised |-> TRUE]
        ELSE IF found # {}
        THEN LET i == CHOOSE j \in found : TRUE
             IN  [rows   |-> [rs EXCEPT ![i] = update_existing(rs[i], scraped, t)],
                  is_new |-> FALSE,
                  raised |-> FALSE]
        ELSE [rows |-> Append(rs, NewListing(scraped)), is_new |-> TRUE, raised |-> FALSE]

hours_since_seen(t, last_seen) == (t - last_seen) * HoursPerTick

\* should_delist with >= for >.
should_delist_inclusive(t, last_seen) == hours_since_seen(t, last_seen) >= DelistHours

\* should_delist with no staleness window.
should_delist_at_once(t, last_seen) == TRUE

should_delist(t, last_seen) == hours_since_seen(t, last_seen) > DelistHours

\* mark_delisted without the test of seen_mls_ids (lines 119-120).
mark_delisted_ignoring_seen(rs, seen, t) ==
    [i \in DOMAIN rs |->
        IF /\ rs[i].flushed
           /\ rs[i].status = "active"
           /\ rs[i].last_seen # None
           /\ should_delist(t, rs[i].last_seen)
        THEN [rs[i] EXCEPT !.status = "delisted"]
        ELSE rs[i]]

\* mark_delisted(session, seen_mls_ids), after the autoflush of its query, at clock t.
mark_delisted(rs, seen, t) ==
    [i \in DOMAIN rs |->
        IF /\ rs[i].flushed
           /\ rs[i].status = "active"
           /\ rs[i].mls_id \notin seen
           /\ rs[i].last_seen # None
           /\ should_delist(t, rs[i].last_seen)
        THEN [rs[i] EXCEPT !.status = "delisted"]
        ELSE rs[i]]

----------------------------------------------------------------------------
(* upsert_pois_for_listing: points of interest and their links to listings *)

MaxPois == 2

ListingIds == {1, 2}

OsmIds == {111, 222}

Distances == {150, 300}

\* The name OpenStreetMap has for the object.
NameOf(osm_id) == IF osm_id = 111 THEN "Stanley Park" ELSE "Park"

\* One element of the argument pois: a dict with osm_id, name, type, geometry and
\* distance_m.
PoiData ==
    {f \in [osm_id : OsmIds, name : {NameOf(o) : o \in OsmIds}, type : {"park"},
            geometry : {"Point"}, distance_m : Distances] :
        f.name = NameOf(f.osm_id)}

\* A lookup that never finds the POI.
select_poi_id_finds_nothing(table, osm_id) == {}

\* select(PointOfInterest.id).where(PointOfInterest.osm_id == osm_id)
select_poi_id(table, osm_id) == {id \in DOMAIN table : table[id].osm_id = osm_id}

\* insert(PointOfInterest).values(...).returning(PointOfInterest.id)
insert_poi(table, poi_data) ==
    Append(table, [osm_id   |-> poi_data.osm_id,
                   type     |-> poi_data.type,
                   name     |-> poi_data.name,
                   geometry |-> poi_data.geometry])

\* insert(ListingPOI).values(...) as a plain INSERT.
insert_link(links, listing_id, poi_id, distance_m) ==
    links (+) SetToBag({[listing_id |-> listing_id, poi_id |-> poi_id,
                         distance_m |-> distance_m]})

\* The link statement without its ON CONFLICT clause.
link_without_on_conflict(links, listing_id, poi_id, distance_m) ==
    insert_link(links, listing_id, poi_id, distance_m)

\* insert(ListingPOI).values(...).on_conflict_do_update(
\*     index_elements=["listing_id", "poi_id"], set_={"distance_m": ...})
upsert_link(links, listing_id, poi_id, distance_m) ==
    LET set_distance_m(row) ==
            IF row.listing_id = listing_id /\ row.poi_id = poi_id
            THEN [row EXCEPT !.distance_m = distance_m]
            ELSE row
    IN  IF \E row \in BagToSet(links) : row.listing_id = listing_id /\ row.poi_id = poi_id
        THEN BagOfAll(set_distance_m, links)
        ELSE insert_link(links, listing_id, poi_id, distance_m)

\* One round of `for poi_data in pois`, on st = the two tables, the poi_ids
\* collected so far and whether scalar_one_or_none() has raised.
upsert_one_poi(st, listing_id, poi_data) ==
    LET found == select_poi_id(st.table, poi_data.osm_id)
    IN  IF Cardinality(found) > 1
        THEN [st EXCEPT !.raised = TRUE]
        ELSE LET table2 == IF found = {} THEN insert_poi(st.table, poi_data) ELSE st.table
                 poi_id == IF found = {} THEN Len(table2) ELSE CHOOSE id \in found : TRUE
             IN  [table   |-> table2,
                  links   |-> upsert_link(st.links, listing_id, poi_id, poi_data.distance_m),
                  poi_ids |-> Append(st.poi_ids, poi_id),
                  raised  |-> FALSE]

RECURSIVE upsert_pois_from(_, _, _, _)
\* The rounds k, k+1, ... of the loop; a raise ends it.
upsert_pois_from(st, listing_id, pois, k) ==
    IF k > Len(pois) \/ st.raised
    THEN st
    ELSE upsert_pois_from(upsert_one_poi(st, listing_id, pois[k]), listing_id, pois, k + 1)

\* upsert_pois_for_listing(db, listing_id, pois) on the tables (table, links).
upsert_pois_for_listing(table, links, listing_id, pois) ==
    LET st0 == [table |-> table, links |-> links, poi_ids |-> <<>>, raised |-> FALSE]
    IN  IF pois = <<>> THEN st0 ELSE upsert_pois_from(st0, listing_id, pois, 1)

NoPoiCall ==
    [op |-> "none", listing_id |-> 0, pois |-> <<>>, poi_ids |-> <<>>, updated |-> {}]

InitPoi ==
    /\ points_of_interest = <<>>
    /\ listing_pois = EmptyBag
    /\ poiCall = NoPoiCall
    /\ linked = {}

----------------------------------------------------------------------------
(* upsert_pois_for_listing in two transactions at once (PostgreSQL, READ
   COMMITTED): each db.execute is an await, so the statements of the two calls
   interleave; a statement sees the rows committed before it and the
   transaction's own; an INSERT that meets an uncommitted row with its unique
   key waits for that transaction to end (here: to commit) *)

Txns == {1, 2}

\* The calls the two transactions make: no feature, or one.
TxPois == {<<>>} \cup {<<f>> : f \in PoiData}

NoPoiData == [osm_id |-> 0, name |-> "", type |-> "", geometry |-> "", distance_m |-> 0]

NoLink == [listing_id |-> 0, poi_id |-> 0, distance_m |-> 0]

NoTx ==
    [pc |-> "idle", listing_id |-> 0, poi_data |-> NoPoiData, poi_id |-> None,
     poi_ids |-> <<>>, link |-> NoLink]

InitTx ==
    /\ tx = [t \in Txns |-> NoTx]
    /\ tx_pois = <<>>
    /\ tx_links = {}

\* The rows of points_of_interest a statement of transaction t sees.
snapshot(table, t) ==
    [id \in DOMAIN table |->
        IF table[id].state = "committed" \/ (table[id].state = "uncommitted" /\ table[id].by = t)
        THEN table[id].row
        ELSE [table[id].row EXCEPT !.osm_id = None]]

\* The unique index on osm_id holds a committed row with this osm_id.
committed_conflict(table, osm_id) ==
    \E id \in DOMAIN table : table[id].row.osm_id = osm_id /\ table[id].state = "committed"

\* The unique index on osm_id holds a row another transaction has not committed yet.
pending_conflict(table, t, osm_id) ==
    \E id \in DOMAIN table :
        /\ table[id].row.osm_id = osm_id
        /\ table[id].state = "uncommitted"
        /\ table[id].by # t

\* insert(PointOfInterest) has no ON CONFLICT clause: a committed row with the
\* same osm_id makes it raise IntegrityError (unique violation).
insert_poi_raises(table, osm_id) == committed_conflict(table, osm_id)

----------------------------------------------------------------------------
(* scraper/enricher.py: calculate_walkability_score *)

\* p.get(key, default) of a dict.
dict_get(p, key, default) == IF key \in DOMAIN p THEN p[key] ELSE default

Min2(a, b) == IF a <= b THEN a ELSE b

\* len([p for p in features if p.get("distance_m", 9999) <= limit])
count_within(features, limit) ==
    Cardinality({k \in DOMAIN features : dict_get(features[k], "distance_m", 9999) <= limit})

\* The park bands with the points of the nearest and the farthest band exchanged.
park_points_bands_swapped(nearest_park_m) ==
    IF nearest_park_m = None THEN 0
    ELSE IF nearest_park_m <= 200 THEN 10
    ELSE IF nearest_park_m <= 500 THEN 15
    ELSE IF nearest_park_m <= 1000 THEN 20
    ELSE 0

park_points(nearest_park_m) ==
    IF nearest_park_m = None THEN 0
    ELSE IF nearest_park_m <= 200 THEN 20
    ELSE IF nearest_park_m <= 500 THEN 15
    ELSE IF nearest_park_m <= 1000 THEN 10
    ELSE 0

coffee_points(nearest_coffee_m) ==
    IF nearest_coffee_m = None THEN 0
    ELSE IF nearest_coffee_m <= 150 THEN 15
    ELSE IF nearest_coffee_m <= 300 THEN 12
    ELSE IF nearest_coffee_m <= 500 THEN 8
    ELSE 0

dog_park_points(nearest_dog_park_m) ==
    IF nearest_dog_park_m = None THEN 0
    ELSE IF nearest_dog_park_m <= 500 THEN 15
    ELSE IF nearest_dog_park_m <= 1000 THEN 10
    ELSE IF nearest_dog_park_m <= 2000 THEN 5
    ELSE 0

\* The three bonuses tested with if, if, if instead of if, elif, elif.
all_types_bonus_cumulative(amenity_data) ==
    LET has_park == amenity_data.nearest_park_m # None /\ amenity_data.nearest_park_m <= 1000
        has_coffee == amenity_data.nearest_coffee_m # None
                          /\ amenity_data.nearest_coffee_m <= 500
        has_dog_park == amenity_data.nearest_dog_park_m # None
                            /\ amenity_data.nearest_dog_park_m <= 2000
    IN  (IF has_park /\ has_coffee /\ has_dog_park THEN 20 ELSE 0)
            + (IF has_park /\ has_coffee THEN 10 ELSE 0)
            + (IF has_park \/ has_coffee THEN 5 ELSE 0)

all_types_bonus(amenity_data) ==
    LET has_park == amenity_data.nearest_park_m # None /\ amenity_data.nearest_park_m <= 1000
        has_coffee == amenity_data.nearest_coffee_m # None
                          /\ amenity_data.nearest_coffee_m <= 500
        has_dog_park == amenity_data.nearest_dog_park_m # None
                            /\ amenity_data.nearest_dog_park_m <= 2000
    IN  IF has_park /\ has_coffee /\ has_dog_park THEN 20
        ELSE IF has_park /\ has_coffee THEN 10
        ELSE IF has_park \/ has_coffee THEN 5
        ELSE 0

\* The running total before the cap.
score_total(amenity_data) ==
    park_points(amenity_data.nearest_park_m)
        + Min2(count_within(amenity_data.parks, 1000) * 2, 10)
        + coffee_points(amenity_data.nearest_coffee_m)
        + Min2(count_within(amenity_data.coffee_shops, 500) * 2, 10)
        + dog_park_points(amenity_data.nearest_dog_park_m)
        + all_types_bonus(amenity_data)

\* The score with neither the caps of the two bonuses nor the final cap.
score_uncapped(amenity_data) ==
    park_points(amenity_data.nearest_park_m)
        + count_within(amenity_data.parks, 1000) * 2
        + coffee_points(amenity_data.nearest_coffee_m)
        + count_within(amenity_data.coffee_shops, 500) * 2
        + dog_park_points(amenity_data.nearest_dog_park_m)
        + all_types_bonus(amenity_data)

calculate_walkability_score(amenity_data) == Min2(score_total(amenity_data), 100)

MaxAmenities == 10

\* n features at the distance `limit`, the farthest that still counts.
CloseFeatures(n, limit) == [k \in 1..n |-> [osm_id |-> k, distance_m |-> limit]]

\* n features: one at `limit`, one just beyond it, one with no distance_m, ...
MixedFeatures(n, limit) ==
    [k \in 1..n |->
        IF k % 3 = 1 THEN [osm_id |-> k, distance_m |-> limit]
        ELSE IF k % 3 = 2 THEN [osm_id |-> k, distance_m |-> limit + 1]
        ELSE [osm_id |-> k]]

FeatureLists(limit) ==
    {CloseFeatures(n, limit) : n \in 0..MaxAmenities}
        \cup {MixedFeatures(n, limit) : n \in 2..3}

\* The arguments calculate_walkability_score is tried on: every distance band
\* at both of its ends, with lists of every length.
ParkDistances == {None, 0, 200, 201, 500, 501, 1000, 1001}

CoffeeDistances == {None, 150, 151, 300, 301, 500, 501}

DogParkDistances == {None, 500, 501, 1000, 1001, 2000, 2001}

Summaries ==
    [nearest_park_m     : ParkDistances,
     nearest_coffee_m   : CoffeeDistances,
     nearest_dog_park_m : DogParkDistances,
     parks              : FeatureLists(1000),
     coffee_shops       : FeatureLists(500),
     dog_parks          : {<<>>, CloseFeatures(MaxAmenities \div 2, 2000)},
     walkability_score  : {0},
     amenity_score      : {0}]

\* AmenityData() with its defaults.
NoAmenityData ==
    [nearest_park_m |-> None, nearest_coffee_m |-> None, nearest_dog_park_m |-> None,
     parks |-> <<>>, coffee_shops |-> <<>>, dog_parks |-> <<>>,
     walkability_score |-> 0, amenity_score |-> 0]

InitScore ==
    /\ score_arg = NoAmenityData
    /\ score = 0
    /\ scored = FALSE

----------------------------------------------------------------------------
(* scraper/enricher.py: _query_overpass, get_nearby_*, enrich *)

MaxElements == 13

MaxLoopTime == 2

MsPerTick == 500

ParksLimit == 10

CoffeeShopsLimit == 10

DogParksLimit == 5

\* The arguments of asyncio.gather, in their order.
Categories == <<"park", "coffee", "dog_park">>

CategorySet == {Categories[k] : k \in DOMAIN Categories}

ResponseSizes == {0, 2, MaxElements - 5, MaxElements}

FirstId(category) ==
    IF category = "park" THEN 100 ELSE IF category = "coffee" THEN 200 ELSE 300

\* The i-th element of the response to a category's query: the third has no
\* geometry, the fifth no id, and the distances from the origin are not in order.
Element(category, i) ==
    [id           |-> IF i = 5 THEN 0 ELSE FirstId(category) + i,
     has_geometry |-> i # 3,
     distance_m   |-> ((i * 3) % 7) * 150]

Elements(category, n) == [i \in 1..n |-> Element(category, i)]

\* What the POST of a query ends with: a 2xx response with a JSON object that has
\* n elements, or has no "elements"; a 2xx response whose body is not JSON; an
\* error status; no response in time; no connection.
Outcomes ==
    {[kind |-> "ok", n |-> n] : n \in ResponseSizes}
        \cup {[kind |-> k, n |-> 0] :
                 k \in {"no_elements", "not_json", "status_503", "status_404",
                        "timeout", "connect_error"}}

NoOutcome == [kind |-> "none", n |-> 0]

\* client.post or raise_for_status raises a subclass of httpx.HTTPError.
raises_http_error(outcome) ==
    outcome.kind \in {"status_503", "status_404", "timeout", "connect_error"}

\* response.json() raises json.JSONDecodeError, which is no httpx.HTTPError.
raises_other_error(outcome) == outcome.kind = "not_json"

\* _query_overpass that tries a request that got no response in time again.
query_overpass_retrying_timeouts(category, outcome, attempt) ==
    [result |-> IF outcome.kind = "ok" THEN Elements(category, outcome.n) ELSE <<>>,
     raised |-> raises_other_error(outcome),
     retry_in |-> IF outcome.kind = "timeout" /\ attempt < 3 THEN 0 ELSE None]

\* _query_overpass that tries a request answered with 503 again, after a delay
\* that doubles.
query_overpass_backing_off_on_503(category, outcome, attempt) ==
    [result |-> IF outcome.kind = "ok" THEN Elements(category, outcome.n) ELSE <<>>,
     raised |-> raises_other_error(outcome),
     retry_in |-> IF outcome.kind = "status_503" /\ attempt < 3 THEN 2 * attempt ELSE None]

\* _query_overpass once the POST of its attempt-th request has ended: what it
\* returns, whether an exception leaves it, and in how many ticks it posts again
\* (never: the except clause returns []).
query_overpass(category, outcome, attempt) ==
    IF raises_http_error(outcome)
    THEN [result |-> <<>>, raised |-> FALSE, retry_in |-> None]
    ELSE IF raises_other_error(outcome)
    THEN [result |-> <<>>, raised |-> TRUE, retry_in |-> None]
    ELSE [result   |-> IF outcome.kind = "ok" THEN Elements(category, outcome.n) ELSE <<>>,
          raised   |-> FALSE,
          retry_in |-> None]

\* The loop time at which _query_overpass posts with a 1.5 s spacing after the
\* last request.
post_time_spaced(time, last_post) ==
    IF last_post # None /\ time < last_post + (1500 \div MsPerTick)
    THEN last_post + (1500 \div MsPerTick)
    ELSE time

\* The loop time at which _query_overpass posts when called at `time`: at once,
\* client.post is the first statement.
post_time(time, last_post) == time

\* if centroid_lat and centroid_lng and osm_id and geometry
usable(el) == el.id # 0 /\ el.has_geometry

TypeOf(category) == IF category = "coffee" THEN "coffee_shop" ELSE category

\* The dict appended for a usable element.
feature(category, el) ==
    [osm_id |-> el.id, type |-> TypeOf(category), distance_m |-> el.distance_m]

\* sorted(...) leaves the list as it is.
sorted_not(features) == features

\* One step of sorted(): x goes after the elements that are not farther.
insort(acc, x) ==
    LET k == Cardinality({j \in DOMAIN acc : acc[j].distance_m <= x.distance_m})
    IN  SubSeq(acc, 1, k) \o <<x>> \o SubSeq(acc, k + 1, Len(acc))

RECURSIVE sorted_upto(_, _)
sorted_upto(features, k) ==
    IF k = 0 THEN <<>> ELSE insort(sorted_upto(features, k - 1), features[k])

\* sorted(features, key=lambda x: x["distance_m"]): ascending and stable.
sorted(features) == sorted_upto(features, Len(features))

\* get_nearby_parks, get_nearby_coffee_shops, get_nearby_dog_parks after
\* _query_overpass has returned elements.
get_nearby(category, elements) ==
    LET kept == SelectSeq(elements, usable)
    IN  sorted([k \in DOMAIN kept |-> feature(category, kept[k])])

\* features[-n:]
last_n(features, n) ==
    SubSeq(features, Len(features) - Min2(n, Len(features)) + 1, Len(features))

\* features[:n]
first_n(features, n) == SubSeq(features, 1, Min2(n, Len(features)))

\* features[0]["distance_m"] if features else None
nearest_m(features) == IF features # <<>> THEN features[1].distance_m ELSE None

\* The body of enrich after the gather: AmenityData(...) and the two scores.
amenity_data_of(parks, cafes, dog_parks) ==
    LET built == [nearest_park_m     |-> nearest_m(parks),
                  nearest_coffee_m   |-> nearest_m(cafes),
                  nearest_dog_park_m |-> nearest_m(dog_parks),
                  parks              |-> first_n(parks, ParksLimit),
                  coffee_shops       |-> first_n(cafes, CoffeeShopsLimit),
                  dog_parks          |-> first_n(dog_parks, DogParksLimit),
                  walkability_score  |-> 0,
                  amenity_score      |-> 0]
    IN  [built EXCEPT !.walkability_score = calculate_walkability_score(built),
                      !.amenity_score = calculate_walkability_score(built)]

\* Three awaits in a row: a coroutine starts when the one before it has returned.
await_in_turn(coros) == [scheduled |-> <<Head(coros)>>, unscheduled |-> Tail(coros)]

\* asyncio.gather(*coros): every coroutine becomes a task, scheduled in the order
\* of the arguments.
gather(coros) == [scheduled |-> coros, unscheduled |-> <<>>]

\* Results handed out in the order the tasks finished.
results_as_completed(tasks, finished) ==
    [k \in DOMAIN Categories |-> tasks[finished[k]].result]

\* The value of `await asyncio.gather(...)`: the results in the order of the
\* arguments.
gather_results(tasks, finished) ==
    [k \in DOMAIN Categories |-> tasks[Categories[k]].result]

NoTask ==
    [pc |-> "new", outcome |-> NoOutcome, posts |-> 0, slept |-> 0, posted_at |-> None,
     result |-> <<>>, raised |-> FALSE]

\* The loop time of the last request any task has posted.
LastPost(tasks) ==
    IF \A c \in CategorySet : tasks[c].posted_at = None
    THEN None
    ELSE CHOOSE t \in {tasks[c].posted_at : c \in CategorySet} :
             \A c \in CategorySet : tasks[c].posted_at <= t

InitEnrich ==
    /\ loop_time = 0
    /\ ready = <<>>
    /\ pending = <<>>
    /\ task = [c \in CategorySet |-> NoTask]
    /\ enrich_pc = "idle"
    /\ called_at = None
    /\ data = NoAmenityData
    /\ completion = <<>>

----------------------------------------------------------------------------
(* scraper/enricher.py: _extract_geometry *)

\* Coordinates are exact fractions <<numerator, denominator>> of a hundredth
\* of a degree, so that a mean and a half are what the division gives.
RECURSIVE gcd(_, _)
gcd(a, b) == IF b = 0 THEN a ELSE gcd(b, a % b)

Abs(n) == IF n < 0 THEN 0 - n ELSE n

\* num / den
Frac(num, den) ==
    LET g == gcd(Abs(num), den)
    IN  <<num \div g, den \div g>>

\* None where a coordinate is expected.
NoCoord == <<0, 0>>

\* bool(x) of a coordinate or None: None and 0.0 are false.
truthy(coord) == coord # NoCoord /\ coord[1] # 0

RECURSIVE sum(_)
sum(numbers) == IF numbers = <<>> THEN 0 ELSE Head(numbers) + sum(Tail(numbers))

\* geometry = None; a Point holds its one position, a Polygon its one ring.
NoGeometry == [type |-> "None", coordinates |-> <<>>]

Point(lng, lat) == [type |-> "Point", coordinates |-> <<<<lng, lat>>>>]

Polygon(coords) == [type |-> "Polygon", coordinates |-> coords]

returned(geometry, centroid_lat, centroid_lng) ==
    [raised |-> FALSE, geometry |-> geometry,
     centroid_lat |-> centroid_lat, centroid_lng |-> centroid_lng]

\* ZeroDivisionError or KeyError leaves _extract_geometry.
raises ==
    [raised |-> TRUE, geometry |-> NoGeometry,
     centroid_lat |-> NoCoord, centroid_lng |-> NoCoord]

\* el.get(key) of a coordinate
get_coord(el, key) == IF key \in DOMAIN el THEN Frac(el[key], 1) ELSE NoCoord

\* The branch  el_type == "way" and "geometry" in el
way_geometry(el) ==
    LET points == el.geometry
        coords == [k \in DOMAIN points |-> <<Frac(points[k].lon, 1), Frac(points[k].lat, 1)>>]
        closed == IF coords # <<>> /\ coords[1] # coords[Len(coords)]
                  THEN Append(coords, coords[1])
                  ELSE coords
        lats == [k \in DOMAIN points |-> points[k].lat]
        lngs == [k \in DOMAIN points |-> points[k].lon]
    IN  IF Len(lats) = 0 THEN raises
        ELSE returned(Polygon(closed), Frac(sum(lats), Len(lats)), Frac(sum(lngs), Len(lngs)))

\* The branch  el_type == "relation" and "bounds" in el
relation_bounds(el) ==
    LET bounds == el.bounds
    IN  IF {"minlat", "maxlat", "minlon", "maxlon"} \subseteq DOMAIN bounds
        THEN LET centroid_lat == Frac(bounds.minlat + bounds.maxlat, 2)
                 centroid_lng == Frac(bounds.minlon + bounds.maxlon, 2)
             IN  returned(Point(centroid_lng, centroid_lat), centroid_lat, centroid_lng)
        ELSE raises

\* The branch  el_type == "node"
node_coordinates(el) ==
    LET centroid_lat == get_coord(el, "lat")
        centroid_lng == get_coord(el, "lon")
    IN  IF truthy(centroid_lat) /\ truthy(centroid_lng)
        THEN returned(Point(centroid_lng, centroid_lat), centroid_lat, centroid_lng)
        ELSE returned(NoGeometry, centroid_lat, centroid_lng)

\* The branch  "center" in el
center_field(el) ==
    LET center == el.center
    IN  IF {"lat", "lon"} \subseteq DOMAIN center
        THEN returned(Point(Frac(center.lon, 1), Frac(center.lat, 1)),
                      Frac(center.lat, 1), Frac(center.lon, 1))
        ELSE raises

extract_geometry(el) ==
    LET el_type == dict_get(el, "type", "")
    IN  IF el_type = "way" /\ "geometry" \in DOMAIN el THEN way_geometry(el)
        ELSE IF el_type = "relation" /\ "bounds" \in DOMAIN el THEN relation_bounds(el)
        ELSE IF el_type = "node" THEN node_coordinates(el)
        ELSE IF "center" \in DOMAIN el THEN center_field(el)
        ELSE returned(NoGeometry, NoCoord, NoCoord)

MaxPoints == 3

\* Positions around the one the tests use, in hundredths of a degree.
BoundaryPoints ==
    {[lat |-> 4928, lon |-> -12312], [lat |-> 4929, lon |-> -12311],
     [lat |-> 4927, lon |-> -12310]}

\* The boundary sequences: any points in any order, none to MaxPoints of them.
BoundarySequences == UNION {[1..k -> BoundaryPoints] : k \in 0..MaxPoints}

NoField == [k \in {} |-> 0]

GeometryFields == {NoField} \cup {[geometry |-> q] : q \in BoundarySequences}

BoundsFields ==
    {NoField,
     [bounds |-> [minlat |-> 4927, maxlat |-> 4930, minlon |-> -12313, maxlon |-> -12311]],
     [bounds |-> [minlat |-> 4927, minlon |-> -12313]]}

CoordinateFields ==
    {NoField, [lat |-> 4928, lon |-> -12312], [lat |-> 4928], [lat |-> 0, lon |-> -12312]}

CenterFields ==
    {NoField, [center |-> [lat |-> 4926, lon |-> -12309]], [center |-> [lat |-> 4926]]}

\* The elements _extract_geometry is tried on: each type tag with each
\* combination of the four optional fields.
RawElements ==
    {[type |-> t, id |-> 123] @@ g @@ b @@ c @@ ctr :
        t \in {"node", "way", "relation"}, g \in GeometryFields, b \in BoundsFields,
        c \in CoordinateFields, ctr \in CenterFields}

NoElement == [type |-> "way", id |-> 123]

InitGeom ==
    /\ raw_el = NoElement
    /\ extraction = returned(NoGeometry, NoCoord, NoCoord)
    /\ extracted = FALSE

----------------------------------------------------------------------------
(* scraper/enricher.py: the loop of get_nearby_* over the elements *)

\* The listing's position, in hundredths of a degree.
ListingLat == 4928

ListingLng == -12312

\* int(haversine_distance(lat1, lon1, lat2, lon2)).  A planar stand-in, in
\* metres, for the great-circle distance at this latitude: zero at the same
\* point, growing with the separation in either direction.
distance_m_between(lat1, lon1, lat2, lon2) ==
    LET dlat == Abs(lat2[1] * lat1[2] - lat1[1] * lat2[2])
        dlon == Abs(lon2[1] * lon1[2] - lon1[1] * lon2[2])
    IN  (1113 * dlat) \div (lat1[2] * lat2[2]) + (730 * dlon) \div (lon1[2] * lon2[2])

\* The dict appended for an element that passed the test of the loop.
nearby_feature(category, el, found) ==
    [osm_id       |-> el.id,
     type         |-> TypeOf(category),
     distance_m   |-> distance_m_between(Frac(ListingLat, 1), Frac(ListingLng, 1),
                                         found.centroid_lat, found.centroid_lng),
     geometry     |-> found.geometry,
     centroid_lat |-> found.centroid_lat,
     centroid_lng |-> found.centroid_lng]

\* if centroid_lat and centroid_lng and osm_id and geometry
passes(el, found) ==
    /\ truthy(found.centroid_lat)
    /\ truthy(found.centroid_lng)
    /\ dict_get(el, "id", 0) # 0
    /\ found.geometry # NoGeometry

\* The for loop over the first k elements: the list built so far, or that
\* _extract_geometry raised on the way.
RECURSIVE nearby_upto(_, _, _)
nearby_upto(category, elements, k) ==
    IF k = 0 THEN [raised |-> FALSE, features |-> <<>>]
    ELSE LET before == nearby_upto(category, elements, k - 1)
             found == extract_geometry(elements[k])
         IN  IF before.raised THEN before
             ELSE IF found.raised THEN [raised |-> TRUE, features |-> <<>>]
             ELSE IF passes(elements[k], found)
                 THEN [before EXCEPT
                          !.features = Append(@, nearby_feature(category, elements[k], found))]
             ELSE before

\* get_nearby_parks, get_nearby_coffee_shops, get_nearby_dog_parks from the
\* elements of the response on, each element given in full.
get_nearby_features(category, elements) ==
    LET built == nearby_upto(category, elements, Len(elements))
    IN  IF built.raised THEN built ELSE [built EXCEPT !.features = sorted(@)]

MaxResponse == 2

\* One element of each shape a response is tried with: four usable ones, three
\* that carry no usable position or no id, three with a field that is there
\* but empty or incomplete.
ResponseElements ==
    {[type |-> "way", id |-> 101,
      geometry |-> <<[lat |-> 4928, lon |-> -12312], [lat |-> 4929, lon |-> -12311],
                     [lat |-> 4927, lon |-> -12310]>>],
     [type |-> "node", id |-> 102, lat |-> 4929, lon |-> -12312],
     [type |-> "way", id |-> 103, center |-> [lat |-> 4926, lon |-> -12309]],
     [type |-> "relation", id |-> 104,
      bounds |-> [minlat |-> 4927, maxlat |-> 4930, minlon |-> -12313, maxlon |-> -12311]],
     [type |-> "way", id |-> 105],
     [type |-> "node", id |-> 106],
     [type |-> "node", lat |-> 4928, lon |-> -12311],
     [type |-> "way", id |-> 108, geometry |-> <<>>],
     [type |-> "relation", id |-> 109, bounds |-> [minlat |-> 4927, minlon |-> -12313]],
     [type |-> "way", id |-> 110, center |-> [lat |-> 4926]]}

Responses == UNION {[1..k -> ResponseElements] : k \in 0..MaxResponse}

NoNearby == [raised |-> FALSE, features |-> <<>>]

InitNearby ==
    /\ response = <<>>
    /\ nearby_of = "park"
    /\ nearby = NoNearby
    /\ nearby_done = FALSE

----------------------------------------------------------------------------
(* scraper/realtor_ca.py: _fetch_reese84_token, fetch_page, fetch_single *)

\* How a POST ends: a 2xx response with the JSON body expected, an error
\* status (raise_for_status raises httpx.HTTPStatusError), no response in time
\* (httpx.TimeoutException), no connection (httpx.ConnectError).
TransportOutcomes == {"ok", "status_error", "timeout", "connect_error"}

transport_failure(outcome) == outcome \in {"status_error", "timeout", "connect_error"}

\* _fetch_reese84_token has no try: every failure of its POST leaves it.
token_raises(outcome) == transport_failure(outcome)

\* The except httpx.HTTPError of fetch_page and fetch_single: all three
\* failures are httpx.HTTPError.
search_caught(outcome) == transport_failure(outcome)

NoFetch == [op |-> "none", page |-> 0, mls_id |-> ""]

NoFetchOut ==
    [raised |-> FALSE, token |-> "none", search |-> "none",
     listings |-> <<>>, total |-> 0, found |-> FALSE]

InitFetch ==
    /\ fetch_call = NoFetch
    /\ fetch_pc = "idle"
    /\ fetch_out = NoFetchOut

\* The page loop before a pass: nothing fetched.
InitLoop ==
    /\ total = 0
    /\ page_size = 0

----------------------------------------------------------------------------
(* The operations on one session, called in any order *)

NoScraped == [mls_id |-> "", price |-> 0, address |-> "", raw_data |-> ""]

\* lastCall records the call just made: its argument, the clock when it was made,
\* what upsert_listing returned (is_new) and, for the reading of the checks only,
\* the status the listing had when the call was made (was).
NoCall ==
    [op |-> "none", scraped |-> NoScraped, seen |-> {}, at |-> 0,
     is_new |-> FALSE, was |-> ""]

InitStore ==
    /\ now = 0
    /\ rows = <<>>
    /\ lastCall = NoCall

\* run_scraper is not running.
InitIdle ==
    /\ feed = <<>>
    /\ pc = "idle"
    /\ full_scrape = FALSE
    /\ page = 1
    /\ total_pages = 0
    /\ seen_mls_ids = {}
    /\ new_listings = <<>>
    /\ listings = <<>>
    /\ idx = 1
    /\ page_new_count = 0
    /\ amenity_scores = {}
    /\ committed = [rows |-> <<>>, amenity_scores |-> {}]
    /\ events = <<>>

\* The clock read after a flush: it advances only when an INSERT ran.
Flushed(d) == d \in Drift /\ now + d <= MaxTime /\ (d > 0 => HasPending(rows))

StatusOf(rs, mls_id) ==
    IF \E i \in DOMAIN rs : rs[i].mls_id = mls_id
    THEN rs[CHOOSE i \in DOMAIN rs : rs[i].mls_id = mls_id].status
    ELSE "absent"

Upsert(scraped) ==
    \E d \in Drift :
        /\ Flushed(d)
        /\ UNCHANGED <<runVars, poiVars, otherVars>>
        /\ LET r == upsert_listing(flush(rows, now, now + d), scraped, now + d)
           IN  /\ rows' = r.rows
               /\ lastCall' = [op |-> IF r.raised THEN "upsert_raised" ELSE "upsert",
                               scraped |-> scraped, seen |-> {}, at |-> now,
                               is_new |-> r.is_new,
                               was |-> StatusOf(rows, scraped.mls_id)]
        /\ now' = now + d

MarkDelisted(seen) ==
    \E d \in Drift :
        /\ Flushed(d)
        /\ UNCHANGED <<runVars, poiVars, otherVars>>
        /\ rows' = mark_delisted(flush(rows, now, now + d), seen, now + d)
        /\ lastCall' = [op |-> "mark_delisted", scraped |-> NoScraped,
                        seen |-> seen, at |-> now,
                        is_new |-> FALSE, was |-> ""]
        /\ now' = now + d

Commit ==
    \E d \in Drift :
        /\ Flushed(d)
        /\ UNCHANGED <<runVars, poiVars, otherVars>>
        /\ rows' = flush(rows, now, now + d)
        /\ lastCall' = [op |-> "commit", scraped |-> NoScraped, seen |-> {}, at |-> now,
                        is_new |-> FALSE, was |-> ""]
        /\ now' = now + d

Tick ==
    /\ now < MaxTime
    /\ now' = now + 1
    /\ UNCHANGED <<rows, lastCall, runVars, poiVars, otherVars>>

UpsertAny == \E scraped \in ScrapedListing : Upsert(scraped)

MarkDelistedAny == \E seen \in SUBSET MlsIds : MarkDelisted(seen)

Init == InitStore /\ InitIdle /\ InitPoi /\ InitTx /\ InitEnrich /\ InitScore /\ InitGeom /\ InitNearby /\ InitFetch /\ InitLoop

Next ==
    \/ UpsertAny
    \/ MarkDelistedAny
    \/ Commit
    \/ Tick

Spec == Init /\ [][Next]_vars

----------------------------------------------------------------------------
(* run_scraper: one pass after another over the listing source *)

MaxPages == 2

MaxPageLen == 2

RecordsPerPage == 200

PageCap == 100

Min(a, b) == IF a <= b THEN a ELSE b

\* The record the source serves for an mls_id (price changes are left to Spec).
FeedRecord(mls_id) ==
    [mls_id |-> mls_id, price |-> 500000, address |-> "123 Test St",
     raw_data |-> "$500,000"]

SeqsUpTo(S, n) == UNION {[1..k -> S] : k \in 0..n}

\* What one page of the source can hold: mls_ids, none twice.  A full page of
\* RecordsPerPage records is modelled by the listings the model follows.
PageContents ==
    {q \in SeqsUpTo(MlsIds, MaxPageLen) :
        \A a, b \in DOMAIN q : q[a] = q[b] => a = b}

\* The states of the source: every page but the last is full, and a listing is
\* on one page only.
Feeds ==
    {f \in SeqsUpTo(PageContents, MaxPages) :
        /\ \A k \in DOMAIN f : k < Len(f) => f[k] # <<>>
        /\ \A k, l \in DOMAIN f :
              k # l => {f[k][a] : a \in DOMAIN f[k]} \cap {f[l][b] : b \in DOMAIN f[l]} = {}}

\* Paging.TotalRecords of the source.
total_records(f) ==
    IF f = <<>> THEN 0 ELSE RecordsPerPage * (Len(f) - 1) + Len(f[Len(f)])

\* fetch_page(page_no) when the request succeeds: (listings, total).
fetch_page(f, page_no) ==
    [listings |-> IF page_no \in DOMAIN f
                  THEN [k \in DOMAIN f[page_no] |-> FeedRecord(f[page_no][k])]
                  ELSE <<>>,
     total    |-> total_records(f)]

\* fetch_page when the request fails with an httpx.HTTPError: ([], 0).
fetch_page_failed == [listings |-> <<>>, total |-> 0]

\* existing_ratio >= 0.8, in integers (the quotient of two integers below 1000 is
\* never within a rounding error of 0.8 unless it is 0.8).
stop_early(page_len, new_count) == (page_len - new_count) * 10 >= 8 * page_len

\* The page loop that stops only above 80%.
loop_ends_above_80(page_no, pages, full, page_len, new_count) ==
    \/ page_no >= pages
    \/ ~full /\ page_len > 0 /\ (page_len - new_count) * 10 > 8 * page_len

\* The two tests that end the page loop: `if page >= total_pages: break`, and
\* `if not full_scrape and len(listings) > 0: ... if existing_ratio >= 0.8: break`.
loop_ends(page_no, pages, full, page_len, new_count) ==
    \/ page_no >= pages
    \/ ~full /\ page_len > 0 /\ stop_early(page_len, new_count)

\* The test of the total of page 1 left out.
no_listings_found_never(page_no, reported) == FALSE

\* if page == 1: if total == 0: return
no_listings_found(page_no, reported) == page_no = 1 /\ reported = 0

\* The rounds of the enrichment loop taken from the end of the list.
enrich_order_reversed(created) == [k \in DOMAIN created |-> created[Len(created) + 1 - k]]

\* for i, listing in enumerate(new_listings, 1): the order of the rounds.
enrich_order(created) == created

\* One entry of the log of a pass: what was done, and to which listing (the
\* total reported, for a fetch; the listing created, for an upsert).
Event(ev, id) == [ev |-> ev, id |-> id]

\* run_scraper returns ("done"), an exception leaves it ("raised") or the
\* process dies ("crashed"): its locals are gone.
Ended(how) ==
    /\ pc' = how
    /\ full_scrape' = FALSE
    /\ page' = 1
    /\ total_pages' = 0
    /\ seen_mls_ids' = {}
    /\ new_listings' = <<>>
    /\ listings' = <<>>
    /\ idx' = 1
    /\ page_new_count' = 0

\* An exception leaves the `async with async_session()` block, or the process
\* dies: the open transaction is rolled back, what was committed stays.
Abort(done, why) ==
    /\ rows' = committed.rows
    /\ amenity_scores' = committed.amenity_scores
    /\ events' = events \o done \o <<Event(why, 0)>>
    /\ Ended(why)
    /\ UNCHANGED <<now, lastCall, feed, committed>>

\* session.commit(): the pending objects are flushed and the transaction ends.
commit(rs, scores) == [rows |-> rs, amenity_scores |-> scores]

\* The source changes between two passes.
FeedChange ==
    /\ pc = "idle"
    /\ feed' \in Feeds \ {feed}
    /\ UNCHANGED <<otherVars, poiVars, storeVars, pc, full_scrape, page, total_pages, seen_mls_ids,
                   new_listings, listings, idx, page_new_count, amenity_scores, committed,
                   events>>

\* run_scraper(full_scrape) is called.
Start ==
    /\ pc = "idle"
    /\ \E full \in BOOLEAN : full_scrape' = full
    /\ pc' = "fetch"
    /\ UNCHANGED <<otherVars, poiVars, storeVars, feed, page, total_pages, seen_mls_ids, new_listings,
                   listings, idx, page_new_count, amenity_scores, committed, events>>

\* What a call of fetch_page ends with: the page, ([], 0) after a failed search
\* request, or an exception after a failed token request.
FetchOutcomes == {"ok", "http_error", "raised"}

\* listings, total = await scraper.fetch_page(page), and the test of page 1.
FetchPage ==
    /\ pc = "fetch"
    /\ \E outcome \in FetchOutcomes :
          IF outcome = "raised"
          THEN Abort(<<>>, "raised")
          ELSE LET r == IF outcome = "ok" THEN fetch_page(feed, page) ELSE fetch_page_failed
               IN  /\ events' = Append(events, Event("fetch", r.total))
                   /\ IF no_listings_found(page, r.total)
                      THEN Ended("done")
                      ELSE /\ total_pages' = IF page = 1
                                             THEN Min((r.total \div RecordsPerPage) + 1, PageCap)
                                             ELSE total_pages
                           /\ listings' = r.listings
                           /\ idx' = 1
                           /\ page_new_count' = 0
                           /\ pc' = "upsert"
                           /\ UNCHANGED <<full_scrape, page, seen_mls_ids, new_listings>>
                   /\ UNCHANGED <<storeVars, feed, amenity_scores, committed>>
    /\ UNCHANGED <<otherVars, poiVars>>

\* One round of `for scraped in listings`.
UpsertNext ==
    /\ pc = "upsert"
    /\ idx <= Len(listings)
    /\ \E d \in Drift :
          /\ Flushed(d)
          /\ LET r == upsert_listing(flush(rows, now, now + d), listings[idx], now + d)
             IN  IF r.raised
                 THEN Abort(<<>>, "raised")
                 ELSE /\ rows' = r.rows
                      /\ seen_mls_ids' = seen_mls_ids \cup {listings[idx].mls_id}
                      /\ new_listings' = IF r.is_new
                                         THEN Append(new_listings, Len(r.rows))
                                         ELSE new_listings
                      /\ page_new_count' = IF r.is_new
                                           THEN page_new_count + 1
                                           ELSE page_new_count
                      /\ idx' = idx + 1
                      /\ now' = now + d
                      /\ events' = Append(events, Event("upsert", IF r.is_new THEN Len(r.rows)
                                                                      ELSE 0))
                      /\ UNCHANGED <<pc, full_scrape, page, total_pages, listings, lastCall,
                                     feed, amenity_scores, committed>>
    /\ UNCHANGED <<otherVars, poiVars>>

\* The commit after a page, then the two tests that end the page loop.
CommitPage ==
    /\ pc = "upsert"
    /\ idx > Len(listings)
    /\ \E d \in Drift :
          /\ Flushed(d)
          /\ rows' = flush(rows, now, now + d)
          /\ now' = now + d
    /\ committed' = commit(rows', amenity_scores)
    /\ events' = Append(events, Event("commit", 0))
    /\ IF loop_ends(page, total_pages, full_scrape, Len(listings), page_new_count)
       THEN pc' = "mark" /\ page' = page
       ELSE pc' = "fetch" /\ page' = page + 1
    /\ UNCHANGED <<otherVars, poiVars, lastCall, feed, full_scrape, total_pages, seen_mls_ids, new_listings,
                   listings, idx, page_new_count, amenity_scores>>

\* await mark_delisted(session, seen_mls_ids); await session.commit()
MarkMissing ==
    /\ pc = "mark"
    /\ \E d \in Drift :
          /\ Flushed(d)
          /\ rows' = mark_delisted(flush(rows, now, now + d), seen_mls_ids, now + d)
          /\ now' = now + d
    /\ committed' = commit(rows', amenity_scores)
    /\ events' = events \o <<Event("mark_delisted", 0), Event("commit", 0)>>
    /\ pc' = "enrich"
    /\ idx' = 1
    /\ UNCHANGED <<otherVars, poiVars, lastCall, feed, full_scrape, page, total_pages, seen_mls_ids,
                   new_listings, listings, page_new_count, amenity_scores>>

\* What the two lookups at the head of enrich_listing end with: an exception
\* of session.execute or session.get (they are outside the try), no row or no
\* coordinates, or the coordinates.
Lookups == {"raised", "no_coordinates", "found"}

\* A round of the enrichment loop up to the call of enricher.enrich: when
\* enrich_listing returns before it, the commit of the round follows at once.
EnrichListing ==
    /\ pc = "enrich"
    /\ idx <= Len(new_listings)
    /\ LET listing == enrich_order(new_listings)[idx]
           called == <<Event("enrich_listing", listing)>>
       IN  \E lookup \in Lookups :
              IF lookup = "raised"
              THEN Abort(called, "raised")
              ELSE /\ IF lookup = "no_coordinates" \/ listing \in amenity_scores
                      THEN /\ idx' = idx + 1
                           /\ pc' = pc
                           /\ events' = events \o called \o <<Event("commit", 0)>>
                      ELSE /\ idx' = idx
                           /\ pc' = "enriching"
                           /\ events' = events \o called \o <<Event("enrich", listing)>>
                   /\ UNCHANGED <<storeVars, feed, full_scrape, page, total_pages,
                                  seen_mls_ids, new_listings, listings, page_new_count,
                                  amenity_scores, committed>>
    /\ UNCHANGED <<otherVars, poiVars>>

\* How the rest of a round ends: the AmenityScore is added and committed,
\* enricher.enrich raises (caught in enrich_listing, then the commit), or the
\* commit of the added AmenityScore raises.
Enrichments == {"ok", "enrich_raised", "commit_raised"}

\* enricher.enrich returns or raises, then await session.commit().
EnrichDone ==
    /\ pc = "enriching"
    /\ LET listing == enrich_order(new_listings)[idx]
       IN  \E outcome \in Enrichments :
              IF outcome = "commit_raised"
              THEN Abort(<<Event("enriched", listing)>>, "raised")
              ELSE /\ amenity_scores' = IF outcome = "ok"
                                        THEN amenity_scores \cup {listing}
                                        ELSE amenity_scores
                   /\ committed' = commit(rows, amenity_scores')
                   /\ events' = events \o <<Event(IF outcome = "ok" THEN "enriched"
                                                  ELSE "enrich_failed", listing),
                                            Event("commit", 0)>>
                   /\ idx' = idx + 1
                   /\ pc' = "enrich"
                   /\ UNCHANGED <<storeVars, feed, full_scrape, page, total_pages,
                                  seen_mls_ids, new_listings, listings, page_new_count>>
    /\ UNCHANGED <<otherVars, poiVars>>

\* await send_notifications(session, new_listings), and run_scraper returns.
SendNotifications ==
    /\ pc = "enrich"
    /\ idx > Len(new_listings)
    /\ events' = Append(events, Event("notify", 0))
    /\ Ended("done")
    /\ UNCHANGED <<otherVars, poiVars, storeVars, feed, amenity_scores, committed>>

\* The process dies in the middle of a pass.
Crash ==
    /\ pc \notin {"idle", "done", "raised", "crashed"}
    /\ Abort(<<>>, "crashed")
    /\ UNCHANGED <<otherVars, poiVars>>

\* The pass is over; the next one starts with an empty log.
Finish ==
    /\ pc \in {"done", "raised", "crashed"}
    /\ pc' = "idle"
    /\ events' = <<>>
    /\ UNCHANGED <<otherVars, poiVars, storeVars, feed, full_scrape, page, total_pages,
                   seen_mls_ids, new_listings, listings, idx, page_new_count, amenity_scores,
                   committed>>

NextRun ==
    \/ FeedChange
    \/ Start
    \/ FetchPage
    \/ UpsertNext
    \/ CommitPage
    \/ MarkMissing
    \/ EnrichListing
    \/ EnrichDone
    \/ SendNotifications
    \/ Crash
    \/ Finish
    \/ Tick

SpecRun == Init /\ [][NextRun]_vars

----------------------------------------------------------------------------
(* fetch_page and fetch_single, one call after another *)

\* The mls_ids the source serves.
served(f) == UNION {{f[k][a] : a \in DOMAIN f[k]} : k \in DOMAIN f}

\* fetch_page(page) or fetch_single(mls_id) is called: the token is asked for.
FetchCall ==
    /\ fetch_pc = "idle"
    /\ \/ \E page_no \in 1..MaxPages :
             fetch_call' = [op |-> "fetch_page", page |-> page_no, mls_id |-> ""]
       \/ \E mls_id \in MlsIds :
             fetch_call' = [op |-> "fetch_single", page |-> 0, mls_id |-> mls_id]
    /\ fetch_pc' = "token"
    /\ fetch_out' = NoFetchOut
    /\ UNCHANGED <<storeVars, runVars, poiVars, txVars, enrichVars, loopVars, scoreVars, geomVars,
                   nearbyVars>>

\* token = await self._fetch_reese84_token(): the POST ends; a failure leaves
\* fetch_page / fetch_single as an exception, the call being outside the try.
TokenAnswer(outcome) ==
    /\ fetch_pc = "token"
    /\ IF token_raises(outcome)
       THEN /\ fetch_pc' = "ended"
            /\ fetch_out' = [fetch_out EXCEPT !.raised = TRUE, !.token = outcome]
       ELSE /\ fetch_pc' = "search"
            /\ fetch_out' = [fetch_out EXCEPT !.token = outcome]
    /\ UNCHANGED <<storeVars, runVars, poiVars, txVars, enrichVars, loopVars, scoreVars, geomVars,
                   nearbyVars, fetch_call>>

\* The try block: the search POST ends, and the function returns.
SearchAnswer(outcome) ==
    /\ fetch_pc = "search"
    /\ fetch_pc' = "ended"
    /\ IF search_caught(outcome)
       THEN fetch_out' = [fetch_out EXCEPT !.search = outcome]
       ELSE IF fetch_call.op = "fetch_page"
       THEN LET r == fetch_page(feed, fetch_call.page)
            IN  fetch_out' = [fetch_out EXCEPT !.search = outcome,
                                               !.listings = r.listings, !.total = r.total]
       ELSE fetch_out' =
                [fetch_out EXCEPT
                    !.search = outcome,
                    !.found = fetch_call.mls_id \in served(feed),
                    !.listings = IF fetch_call.mls_id \in served(feed)
                                 THEN <<FeedRecord(fetch_call.mls_id)>> ELSE <<>>]
    /\ UNCHANGED <<storeVars, runVars, poiVars, txVars, enrichVars, loopVars, scoreVars, geomVars,
                   nearbyVars, fetch_call>>

\* The caller has the result (or the exception); the next call can be made.
FetchEnd ==
    /\ fetch_pc = "ended"
    /\ fetch_pc' = "idle"
    /\ fetch_call' = NoFetch
    /\ fetch_out' = NoFetchOut
    /\ UNCHANGED <<storeVars, runVars, poiVars, txVars, enrichVars, loopVars, scoreVars, geomVars,
                   nearbyVars>>

TokenAnswerAny == \E outcome \in TransportOutcomes : TokenAnswer(outcome)

SearchAnswerAny == \E outcome \in TransportOutcomes : SearchAnswer(outcome)

NextFetch ==
    \/ FeedChange
    \/ FetchCall
    \/ TokenAnswerAny
    \/ SearchAnswerAny
    \/ FetchEnd

SpecFetch == Init /\ [][NextFetch]_vars

----------------------------------------------------------------------------
(* The page loop of run_scraper on its own: a page is followed by its length
   and by how many of its listings were new, the totals go past the cap *)

\* The largest page followed.
MaxListed == 5

\* Paging.TotalRecords of the sources followed: none, less than a page, around
\* one and two pages, around the cap of 100 pages and well beyond it.
Totals == {0, 1, 199, 200, 201, 399, 400, 19799, 19800, 19999, 20000, 25000}

\* The locals of the loop are gone with the pass.
LoopGone ==
    /\ total' = 0
    /\ page_size' = 0

\* listings, total = await scraper.fetch_page(page), and the test of page 1.
\* The source reports the same total on every page of a pass (the loop reads
\* it on page 1 only).
FetchCounted ==
    /\ pc = "fetch"
    /\ \E t \in IF page = 1 THEN Totals ELSE {total} :
       \E n \in 0..Min(MaxListed, t) :
          /\ events' = Append(events, Event("fetch", t))
          /\ IF no_listings_found(page, t)
             THEN Ended("done") /\ LoopGone
             ELSE /\ total' = t
                  /\ page_size' = n
                  /\ total_pages' = IF page = 1
                                    THEN Min((t \div RecordsPerPage) + 1, PageCap)
                                    ELSE total_pages
                  /\ idx' = 1
                  /\ page_new_count' = 0
                  /\ pc' = "upsert"
                  /\ UNCHANGED <<full_scrape, page, seen_mls_ids, new_listings, listings>>
    /\ UNCHANGED <<storeVars, poiVars, txVars, enrichVars, scoreVars, geomVars, nearbyVars,
                   fetchVars, feed, amenity_scores, committed>>

\* One round of `for scraped in listings`: the listing is new or it is not.
UpsertCounted ==
    /\ pc = "upsert"
    /\ idx <= page_size
    /\ \E is_new \in BOOLEAN :
          page_new_count' = IF is_new THEN page_new_count + 1 ELSE page_new_count
    /\ idx' = idx + 1
    /\ UNCHANGED <<storeVars, poiVars, txVars, enrichVars, scoreVars, geomVars, nearbyVars,
                   fetchVars, loopVars, feed, pc, full_scrape, page, total_pages, seen_mls_ids,
                   new_listings, listings, amenity_scores, committed, events>>

\* The end of a round of `while True`: break, or page += 1.
PageDone ==
    /\ pc = "upsert"
    /\ idx > page_size
    /\ IF loop_ends(page, total_pages, full_scrape, page_size, page_new_count)
       THEN pc' = "mark" /\ page' = page
       ELSE pc' = "fetch" /\ page' = page + 1
    /\ UNCHANGED <<storeVars, poiVars, txVars, enrichVars, scoreVars, geomVars, nearbyVars,
                   fetchVars, loopVars, feed, full_scrape, total_pages, seen_mls_ids,
                   new_listings, listings, idx, page_new_count, amenity_scores, committed,
                   events>>

\* The loop is left; the rest of the pass is not followed here.
LoopOver ==
    /\ pc = "mark"
    /\ Ended("done")
    /\ LoopGone
    /\ UNCHANGED <<storeVars, poiVars, txVars, enrichVars, scoreVars, geomVars, nearbyVars,
                   fetchVars, feed, amenity_scores, committed, events>>

NextPages ==
    \/ Start
    \/ FetchCounted
    \/ UpsertCounted
    \/ PageDone
    \/ LoopOver
    \/ Finish

SpecPages == Init /\ [][NextPages]_vars

----------------------------------------------------------------------------
(* upsert_pois_for_listing called for any listing with any list, one call
   after another in one transaction *)

\* The poi_ids whose link to listing_id existed with another distance than the
\* one the call leaves (kept for the reading of the checks only).
UpdatedLinks(links_before, links_after, listing_id) ==
    {row.poi_id : row \in BagToSet(links_before) \ BagToSet(links_after)}

UpsertPois(listing_id, pois) ==
    \E r \in {upsert_pois_for_listing(points_of_interest, listing_pois, listing_id, pois)} :
        /\ points_of_interest' = r.table
        /\ listing_pois' = r.links
        /\ poiCall' = [op |-> IF r.raised THEN "raised" ELSE "returned",
                       listing_id |-> listing_id, pois |-> pois, poi_ids |-> r.poi_ids,
                       updated |-> UpdatedLinks(listing_pois, r.links, listing_id)]
        /\ linked' = linked \cup
              {[listing_id |-> listing_id, osm_id |-> pois[k].osm_id, poi_id |-> r.poi_ids[k]] :
                  k \in DOMAIN r.poi_ids}
        /\ UNCHANGED <<storeVars, runVars, otherVars>>

UpsertPoisAny ==
    \E listing_id \in ListingIds : \E pois \in SeqsUpTo(PoiData, MaxPois) :
        UpsertPois(listing_id, pois)

NextPoi == UpsertPoisAny

SpecPoi == Init /\ [][NextPoi]_vars

----------------------------------------------------------------------------
(* Two transactions that call upsert_pois_for_listing *)

\* Transaction t calls upsert_pois_for_listing(db, listing_id, pois).
TxCall(t, listing_id, pois) ==
    /\ tx[t].pc \in {"idle", "committed", "raised"}
    /\ tx' = [tx EXCEPT ![t] =
                 IF pois = <<>>
                 THEN [NoTx EXCEPT !.pc = "returned", !.listing_id = listing_id]
                 ELSE [NoTx EXCEPT !.pc = "select", !.listing_id = listing_id,
                                   !.poi_data = pois[1]]]
    /\ UNCHANGED <<tx_pois, tx_links>>
    /\ UNCHANGED <<storeVars, runVars, poiVars, enrichVars, pureVars>>

\* existing = await db.execute(select(PointOfInterest.id)...); scalar_one_or_none()
TxSelect(t) ==
    /\ tx[t].pc = "select"
    /\ LET found == select_poi_id(snapshot(tx_pois, t), tx[t].poi_data.osm_id)
       IN  tx' = [tx EXCEPT ![t] =
                     IF Cardinality(found) > 1
                     THEN [NoTx EXCEPT !.pc = "raised"]
                     ELSE IF found = {}
                     THEN [@ EXCEPT !.pc = "insert"]
                     ELSE [@ EXCEPT !.pc = "link", !.poi_id = CHOOSE id \in found : TRUE,
                                    !.poi_ids = <<CHOOSE id \in found : TRUE>>]]
    /\ UNCHANGED <<tx_pois, tx_links>>
    /\ UNCHANGED <<storeVars, runVars, poiVars, enrichVars, pureVars>>

\* result = await db.execute(insert(PointOfInterest)...returning(id)): it waits
\* while another transaction holds the osm_id uncommitted, then inserts or raises;
\* the exception leaves the function and the session rolls back.
TxInsert(t) ==
    /\ tx[t].pc = "insert"
    /\ ~pending_conflict(tx_pois, t, tx[t].poi_data.osm_id)
    /\ IF insert_poi_raises(tx_pois, tx[t].poi_data.osm_id)
       THEN /\ tx' = [tx EXCEPT ![t] = [NoTx EXCEPT !.pc = "raised"]]
            /\ UNCHANGED tx_pois
       ELSE /\ tx_pois' = Append(tx_pois,
                             [row |-> insert_poi(<<>>, tx[t].poi_data)[1],
                              by |-> t, state |-> "uncommitted"])
            /\ tx' = [tx EXCEPT ![t].pc = "link", ![t].poi_id = Len(tx_pois) + 1,
                                ![t].poi_ids = <<Len(tx_pois) + 1>>]
    /\ UNCHANGED tx_links
    /\ UNCHANGED <<storeVars, runVars, poiVars, enrichVars, pureVars>>

\* await db.execute(link_stmt): ON CONFLICT DO UPDATE waits while another
\* transaction holds the same (listing_id, poi_id) uncommitted, and never raises.
TxLink(t) ==
    /\ tx[t].pc = "link"
    /\ \A u \in Txns \ {t} :
           ~(/\ tx[u].link # NoLink
             /\ tx[u].pc = "returned"
             /\ tx[u].link.listing_id = tx[t].listing_id
             /\ tx[u].link.poi_id = tx[t].poi_id)
    /\ tx' = [tx EXCEPT ![t].pc = "returned",
                        ![t].link = [listing_id |-> tx[t].listing_id,
                                     poi_id |-> tx[t].poi_id,
                                     distance_m |-> tx[t].poi_data.distance_m]]
    /\ UNCHANGED <<tx_pois, tx_links>>
    /\ UNCHANGED <<storeVars, runVars, poiVars, enrichVars, pureVars>>

\* The caller commits after the call has returned.
TxCommit(t) ==
    /\ tx[t].pc = "returned"
    /\ tx_pois' = [id \in DOMAIN tx_pois |->
                      IF tx_pois[id].by = t /\ tx_pois[id].state = "uncommitted"
                      THEN [tx_pois[id] EXCEPT !.state = "committed"]
                      ELSE tx_pois[id]]
    /\ tx_links' = IF tx[t].link = NoLink
                   THEN tx_links
                   ELSE {l \in tx_links : ~(/\ l.listing_id = tx[t].link.listing_id
                                            /\ l.poi_id = tx[t].link.poi_id)}
                            \cup {tx[t].link}
    /\ tx' = [tx EXCEPT ![t] = [NoTx EXCEPT !.pc = "committed"]]
    /\ UNCHANGED <<storeVars, runVars, poiVars, enrichVars, pureVars>>

TxCallAny ==
    \E t \in Txns : \E listing_id \in ListingIds : \E pois \in TxPois :
        TxCall(t, listing_id, pois)

TxSelectAny == \E t \in Txns : TxSelect(t)

TxInsertAny == \E t \in Txns : TxInsert(t)

TxLinkAny == \E t \in Txns : TxLink(t)

TxCommitAny == \E t \in Txns : TxCommit(t)

NextTx ==
    \/ TxCallAny
    \/ TxSelectAny
    \/ TxInsertAny
    \/ TxLinkAny
    \/ TxCommitAny

SpecTx == Init /\ [][NextTx]_vars

----------------------------------------------------------------------------
(* One call of AmenityEnricher.enrich on the asyncio event loop: a task runs
   until it awaits a response; the loop runs the ready tasks first in, first
   out, and a response makes its task ready *)

\* enrich(lat, lng) is called and reaches `await asyncio.gather(...)`.
EnrichCall ==
    /\ enrich_pc = "idle"
    /\ enrich_pc' = "gather"
    /\ called_at' = loop_time
    /\ ready' = gather(Categories).scheduled
    /\ pending' = gather(Categories).unscheduled
    /\ UNCHANGED <<storeVars, runVars, poiVars, txVars, pureVars, loop_time, task, data, completion>>

\* The loop runs a new task: get_nearby_* builds its query and _query_overpass
\* awaits client.post.
StartTask ==
    /\ ready # <<>>
    /\ task[Head(ready)].pc = "new"
    /\ task' = [task EXCEPT ![Head(ready)] =
                   [@ EXCEPT !.pc = "posted", !.posts = 1,
                             !.posted_at = post_time(loop_time, LastPost(task))]]
    /\ ready' = Tail(ready)
    /\ UNCHANGED <<storeVars, runVars, poiVars, txVars, pureVars, loop_time, pending, enrich_pc,
                   called_at, data, completion>>

\* The POST of a task ends: its task is ready to go on.
Arrive(c, outcome) ==
    /\ task[c].pc = "posted"
    /\ task' = [task EXCEPT ![c] = [@ EXCEPT !.pc = "responded", !.outcome = outcome]]
    /\ ready' = Append(ready, c)
    /\ UNCHANGED <<storeVars, runVars, poiVars, txVars, pureVars, loop_time, pending, enrich_pc,
                   called_at, data, completion>>

ArriveAny == \E c \in CategorySet : \E outcome \in Outcomes : Arrive(c, outcome)

\* The loop runs a task whose POST has ended: the rest of _query_overpass and
\* of get_nearby_*.
ResumeTask ==
    /\ ready # <<>>
    /\ task[Head(ready)].pc = "responded"
    /\ \E c \in {Head(ready)} :
       \E r \in {query_overpass(c, task[c].outcome, task[c].posts)} :
          IF r.retry_in # None
          THEN /\ task' = [task EXCEPT ![c] =
                              [@ EXCEPT !.pc = "posted", !.posts = @ + 1,
                                        !.slept = @ + r.retry_in, !.outcome = NoOutcome]]
               /\ ready' = Tail(ready)
               /\ UNCHANGED <<pending, completion>>
          ELSE /\ task' = [task EXCEPT ![c] =
                              [@ EXCEPT !.pc = "done", !.raised = r.raised,
                                        !.result = IF r.raised THEN <<>>
                                                   ELSE get_nearby(c, r.result)]]
               /\ completion' = Append(completion, c)
               /\ IF pending # <<>> /\ ~r.raised
                  THEN ready' = Append(Tail(ready), Head(pending)) /\ pending' = Tail(pending)
                  ELSE ready' = Tail(ready) /\ UNCHANGED pending
    /\ UNCHANGED <<storeVars, runVars, poiVars, txVars, pureVars, loop_time, enrich_pc, called_at, data>>

\* Nothing is ready: the loop waits for a response (or nobody has called yet).
Wait ==
    /\ ready = <<>>
    /\ enrich_pc \in {"idle", "gather"}
    /\ loop_time < MaxLoopTime
    /\ loop_time' = loop_time + 1
    /\ UNCHANGED <<storeVars, runVars, poiVars, txVars, pureVars, ready, pending, task, enrich_pc,
                   called_at, data, completion>>

\* Every task has returned: the gather returns and enrich builds its AmenityData.
EnrichReturn ==
    /\ enrich_pc = "gather"
    /\ \A c \in CategorySet : task[c].pc = "done" /\ ~task[c].raised
    /\ \E got \in {gather_results(task, completion)} :
          data' = amenity_data_of(got[1], got[2], got[3])
    /\ enrich_pc' = "returned"
    /\ UNCHANGED <<storeVars, runVars, poiVars, txVars, pureVars, loop_time, ready, pending, task,
                   called_at, completion>>

\* An exception has left a task: the gather hands it to enrich, which has no
\* handler.
EnrichRaise ==
    /\ enrich_pc = "gather"
    /\ \E c \in CategorySet : task[c].raised
    /\ enrich_pc' = "raised"
    /\ UNCHANGED <<storeVars, runVars, poiVars, txVars, pureVars, loop_time, ready, pending, task,
                   called_at, data, completion>>

NextEnrich ==
    \/ EnrichCall
    \/ StartTask
    \/ ArriveAny
    \/ ResumeTask
    \/ Wait
    \/ EnrichReturn
    \/ EnrichRaise

SpecEnrich == Init /\ [][NextEnrich]_vars

----------------------------------------------------------------------------
(* calculate_walkability_score applied to one summary *)

InitSummary ==
    /\ InitStore /\ InitIdle /\ InitPoi /\ InitTx /\ InitEnrich /\ InitGeom /\ InitNearby /\ InitFetch /\ InitLoop
    /\ score_arg \in Summaries
    /\ score = 0
    /\ scored = FALSE

Score ==
    /\ ~scored
    /\ score' = calculate_walkability_score(score_arg)
    /\ scored' = TRUE
    /\ UNCHANGED <<storeVars, runVars, poiVars, txVars, enrichVars, loopVars, geomVars, nearbyVars,
                   fetchVars, score_arg>>

NextScore == Score

SpecScore == InitSummary /\ [][NextScore]_vars

----------------------------------------------------------------------------
(* _extract_geometry applied to one element *)

InitElement ==
    /\ InitStore /\ InitIdle /\ InitPoi /\ InitTx /\ InitEnrich /\ InitScore /\ InitNearby /\ InitFetch /\ InitLoop
    /\ raw_el \in RawElements
    /\ extraction = returned(NoGeometry, NoCoord, NoCoord)
    /\ extracted = FALSE

ExtractGeometry ==
    /\ ~extracted
    /\ extraction' = extract_geometry(raw_el)
    /\ extracted' = TRUE
    /\ UNCHANGED <<storeVars, runVars, poiVars, txVars, enrichVars, loopVars, scoreVars, nearbyVars,
                   fetchVars, raw_el>>

NextGeom == ExtractGeometry

SpecGeom == InitElement /\ [][NextGeom]_vars

----------------------------------------------------------------------------
(* get_nearby_* applied to one response *)

InitResponse ==
    /\ InitStore /\ InitIdle /\ InitPoi /\ InitTx /\ InitEnrich /\ InitScore /\ InitGeom /\ InitFetch /\ InitLoop
    /\ response \in Responses
    /\ nearby_of \in CategorySet
    /\ nearby = NoNearby
    /\ nearby_done = FALSE

GetNearby ==
    /\ ~nearby_done
    /\ nearby' = get_nearby_features(nearby_of, response)
    /\ nearby_done' = TRUE
    /\ UNCHANGED <<storeVars, runVars, poiVars, txVars, enrichVars, loopVars, scoreVars, geomVars,
                   fetchVars, response, nearby_of>>

NextNearby == GetNearby

SpecNearby == InitResponse /\ [][NextNearby]_vars

----------------------------------------------------------------------------
(* Claims about upsert_listing and mark_delisted *)

Persisted(rs) == {i \in DOMAIN rs : rs[i].flushed}

WithMlsId(rs, mls_id) == {i \in DOMAIN rs : rs[i].mls_id = mls_id}

\* The step is a call of upsert_listing (its argument is lastCall'.scraped).
UpsertStep ==
    /\ lastCall'.op \in {"upsert", "upsert_raised"}
    /\ Upsert(lastCall'.scraped)

\* The step is a call of mark_delisted (its argument is lastCall'.seen).
MarkDelistedStep ==
    /\ lastCall'.op = "mark_delisted"
    /\ MarkDelisted(lastCall'.seen)

\* C1: mark_delisted(seenIds) delists an active persisted listing that is not in
\* seenIds if and only if the clock it reads is strictly more than 48 hours past
\* the listing's last_seen; at exactly 48 hours or less the listing stays active.
C1_DelistedIffStale ==
    [][MarkDelistedStep =>
              \A i \in Persisted(rows) :
                  (rows[i].status = "active" /\ rows[i].mls_id \notin lastCall'.seen) =>
                      /\ rows'[i].status \in {"active", "delisted"}
                      /\ rows'[i].status = "delisted"
                            <=> (now' - rows[i].last_seen) * HoursPerTick > 48]_vars

\* A mark_delisted call has just found one unseen listing older than 48 hours and
\* another unseen listing seen exactly 48 hours ago.
C1_Witness ==
    /\ lastCall.op = "mark_delisted"
    /\ lastCall.at = now
    /\ \E i \in Persisted(rows) :
          /\ rows[i].mls_id \notin lastCall.seen
          /\ rows[i].status = "delisted"
          /\ (now - rows[i].last_seen) * HoursPerTick > 48
    /\ \E j \in Persisted(rows) :
          /\ rows[j].mls_id \notin lastCall.seen
          /\ rows[j].status = "active"
          /\ (now - rows[j].last_seen) * HoursPerTick = 48

\* C2: mark_delisted leaves every persisted listing whose mls_id is in seenIds
\* unchanged in every column, however old its last_seen.
C2_SeenUntouched ==
    [][MarkDelistedStep =>
              \A i \in Persisted(rows) :
                  rows[i].mls_id \in lastCall'.seen => rows'[i] = rows[i]]_vars

\* A mark_delisted call has just skipped a listing of seenIds that is older than
\* 48 hours, while it delisted an unseen one.
C2_Witness ==
    /\ lastCall.op = "mark_delisted"
    /\ lastCall.at = now
    /\ \E i \in Persisted(rows) :
          /\ rows[i].mls_id \in lastCall.seen
          /\ rows[i].status = "active"
          /\ (now - rows[i].last_seen) * HoursPerTick > 48
    /\ \E j \in Persisted(rows) :
          /\ rows[j].mls_id \notin lastCall.seen
          /\ rows[j].status = "delisted"

\* C3: the session never holds two listings of one mls_id and upsert_listing
\* never raises; an upsert of an mls_id that is present returns is_new = FALSE,
\* adds no listing and sets the price of the listing to the scraped price.
C3_OnePerMlsId ==
    /\ [](/\ \A i, j \in DOMAIN rows : rows[i].mls_id = rows[j].mls_id => i = j
          /\ lastCall.op # "upsert_raised")
    /\ [][(UpsertStep /\ WithMlsId(rows, lastCall'.scraped.mls_id) # {}) =>
                /\ lastCall'.is_new = FALSE
                /\ Len(rows') = Len(rows)
                /\ \A i \in WithMlsId(rows, lastCall'.scraped.mls_id) :
                      rows'[i].price = lastCall'.scraped.price]_vars

\* The same mls_id was upserted twice in a row with no commit between (as when a
\* page repeats it) and with another price: one listing, the second price.
C3_Witness ==
    /\ lastCall.op = "upsert"
    /\ lastCall.is_new = FALSE
    /\ lastCall.was = "active"
    /\ Cardinality(WithMlsId(rows, lastCall.scraped.mls_id)) = 1
    /\ \E i \in WithMlsId(rows, lastCall.scraped.mls_id) :
          /\ rows[i].first_seen = now
          /\ rows[i].price = lastCall.scraped.price
          /\ rows[i].price = 550000
    /\ Len(rows) = 2

\* C4 as stated: an upsert of an absent mls_id returns is_new = TRUE and adds
\* exactly one listing, active, with the scraped columns, and the first_seen and
\* last_seen the listing is stored with both equal the time of the call (until
\* a later upsert of the same mls_id moves last_seen).
C4_StampedAtCall ==
    [][/\ (UpsertStep /\ WithMlsId(rows, lastCall'.scraped.mls_id) = {}) =>
             /\ lastCall'.is_new
             /\ Len(rows') = Len(rows) + 1
             /\ rows'[Len(rows')].status = "active"
             /\ rows'[Len(rows')].mls_id = lastCall'.scraped.mls_id
       /\ \A i \in DOMAIN rows :
             (~rows[i].flushed /\ rows'[i].flushed) =>
                 /\ rows'[i].first_seen = lastCall.at
                 /\ \/ rows'[i].last_seen = lastCall.at
                    \/ /\ lastCall'.op = "upsert"
                       /\ lastCall'.scraped.mls_id = rows[i].mls_id]_vars

\* C4, amended: an upsert of an absent mls_id returns is_new = TRUE and adds
\* exactly one listing (the others keep their place), active, with the scraped
\* columns, and with first_seen and last_seen unset; both are set when the
\* session next flushes the listing, each by a clock read of that flush, so that
\* call time <= first_seen <= last_seen.
C4_CreatesActiveStampedAtFlush ==
    [][/\ (UpsertStep /\ WithMlsId(rows, lastCall'.scraped.mls_id) = {}) =>
             /\ lastCall'.op = "upsert"
             /\ lastCall'.is_new
             /\ Len(rows') = Len(rows) + 1
             /\ Cardinality(WithMlsId(rows', lastCall'.scraped.mls_id)) = 1
             /\ rows'[Len(rows')] =
                    [mls_id     |-> lastCall'.scraped.mls_id,
                     address    |-> lastCall'.scraped.address,
                     price      |-> lastCall'.scraped.price,
                     raw_data   |-> lastCall'.scraped.raw_data,
                     status     |-> "active",
                     first_seen |-> None,
                     last_seen  |-> None,
                     flushed    |-> FALSE]
             /\ \A i \in Persisted(rows) : rows'[i] = rows[i]
       /\ \A i \in DOMAIN rows :
             (~rows[i].flushed /\ rows'[i].flushed) =>
                 /\ lastCall.op = "upsert" /\ lastCall.is_new
                 /\ lastCall.scraped.mls_id = rows[i].mls_id
                 /\ rows'[i].first_seen = now
                 /\ rows'[i].last_seen = now'
                 /\ lastCall.at <= rows'[i].first_seen
                 /\ rows'[i].first_seen <= rows'[i].last_seen
                 /\ rows'[i].address = rows[i].address
                 /\ rows'[i].status = "active"]_vars

\* An upsert has just created the second listing of the session, and the clock
\* has moved on since the call while the listing waits for its INSERT.
C4_Witness ==
    /\ lastCall.op = "upsert"
    /\ lastCall.is_new
    /\ lastCall.was = "absent"
    /\ lastCall.at < now
    /\ Len(rows) = 2
    /\ rows[2].mls_id = lastCall.scraped.mls_id
    /\ ~rows[2].flushed
    /\ rows[1].flushed

\* C5: an upsert of an mls_id whose listing is delisted sets the status to active
\* in that same call and returns is_new = FALSE.
C5_Reactivates ==
    [][UpsertStep =>
              \A i \in WithMlsId(rows, lastCall'.scraped.mls_id) :
                  rows[i].status = "delisted" =>
                      /\ rows'[i].status = "active"
                      /\ lastCall'.op = "upsert"
                      /\ lastCall'.is_new = FALSE]_vars

\* An upsert has just been made of a listing that was delisted.
C5_Witness ==
    /\ lastCall.op = "upsert"
    /\ lastCall.was = "delisted"
    /\ lastCall.is_new = FALSE
    /\ \E i \in WithMlsId(rows, lastCall.scraped.mls_id) : rows[i].status = "active"

\* C6: an upsert of an mls_id that is present changes only price, last_seen,
\* raw_data and status of that listing: mls_id, first_seen and the descriptive
\* columns keep their values, also when the scraped record carries other ones
\* (first_seen of a listing not yet inserted is set by the insert, not by upsert).
C6_OnlyPriceSeenRawStatus ==
    [][UpsertStep =>
              \A i \in WithMlsId(rows, lastCall'.scraped.mls_id) :
                  /\ rows'[i].mls_id = rows[i].mls_id
                  /\ rows'[i].address = rows[i].address
                  /\ rows[i].flushed => rows'[i].first_seen = rows[i].first_seen
                  /\ ~rows[i].flushed => rows'[i].first_seen = now
                  /\ rows'[i].flushed]_vars

\* An upsert has just been made of a present listing with a scraped address that
\* differs from the stored one, at a later time than the listing was first seen.
C6_Witness ==
    /\ lastCall.op = "upsert"
    /\ lastCall.is_new = FALSE
    /\ lastCall.at = now
    /\ \E i \in WithMlsId(rows, lastCall.scraped.mls_id) :
          /\ rows[i].address # lastCall.scraped.address
          /\ rows[i].first_seen < now
          /\ rows[i].last_seen = now
          /\ rows[i].price = lastCall.scraped.price

\* C7: over any sequence of upsert and mark_delisted calls a status is active or
\* delisted, no listing is removed or changes its mls_id, a listing appears only
\* by an upsert and as active, delisted -> active happens only in an upsert of
\* that mls_id, and active -> delisted happens only in mark_delisted, for an
\* unseen listing whose last_seen is more than 48 hours old.
C7_Lifecycle ==
    [][/\ Len(rows') >= Len(rows)
       /\ \A i \in DOMAIN rows' : rows'[i].status \in {"active", "delisted"}
       /\ \A i \in DOMAIN rows' \ DOMAIN rows :
             /\ rows'[i].status = "active"
             /\ lastCall'.op = "upsert"
             /\ lastCall'.scraped.mls_id = rows'[i].mls_id
             /\ lastCall'.is_new
       /\ \A i \in DOMAIN rows :
             /\ rows'[i].mls_id = rows[i].mls_id
             /\ (rows[i].status = "delisted" /\ rows'[i].status = "active") =>
                   /\ lastCall'.op = "upsert"
                   /\ lastCall'.scraped.mls_id = rows[i].mls_id
             /\ (rows[i].status = "active" /\ rows'[i].status = "delisted") =>
                   /\ lastCall'.op = "mark_delisted"
                   /\ rows[i].mls_id \notin lastCall'.seen
                   /\ rows[i].flushed
                   /\ (now' - rows[i].last_seen) * HoursPerTick > 48]_vars

\* A listing went absent -> active -> delisted -> active, and another listing is
\* delisted.
C7_Witness ==
    /\ lastCall.op = "upsert"
    /\ lastCall.was = "delisted"
    /\ \E i, j \in DOMAIN rows :
          /\ rows[i].mls_id = lastCall.scraped.mls_id
          /\ rows[i].status = "active"
          /\ rows[i].first_seen = 0
          /\ rows[j].status = "delisted"

----------------------------------------------------------------------------
(* Claims about run_scraper *)

\* The mls_ids the source reports on the pages after page p.
OnLaterPages(f, p) ==
    UNION {{f[k][a] : a \in DOMAIN f[k]} : k \in {q \in DOMAIN f : q > p}}

\* C8: the mark_delisted call of an incremental pass that stopped before the
\* last page does not delist a listing that the source reports on a page the
\* pass did not fetch.
C8_PartialPassKeepsUnfetched ==
    [][(pc = "mark" /\ pc' = "enrich" /\ ~full_scrape /\ page < total_pages) =>
          \A i \in DOMAIN rows :
              (rows[i].mls_id \in OnLaterPages(feed, page) /\ rows[i].status = "active")
                  => rows'[i].status = "active"]_vars

\* The listing whose upsert was the last step before this one: its own
\* transaction, were there one for each listing, could still be open.
InProgress(mls_id) == pc = "upsert" /\ idx > 1 /\ listings[idx - 1].mls_id = mls_id

\* C26: when the process dies in the middle of a pass, every listing the pass
\* has upserted before the one in progress is in the table afterwards as the
\* pass left it, and every AmenityScore the pass has added is there too.
C26_CrashKeepsProcessed ==
    [][(pc' = "crashed" /\ pc # "crashed") =>
          (/\ \A i \in DOMAIN rows :
                  (rows[i].mls_id \in seen_mls_ids /\ ~InProgress(rows[i].mls_id)) =>
                      /\ i \in DOMAIN rows'
                      /\ rows'[i].mls_id = rows[i].mls_id
                      /\ rows'[i].price = rows[i].price
                      /\ rows'[i].status = rows[i].status
           /\ amenity_scores \subseteq amenity_scores')]_vars

\* C27: an exception never ends the pass in the enrichment loop while listings
\* are left to enrich, and no step of the loop changes the listings table.
C27_EnrichFailureSkipsOnlyOne ==
    [][(pc \in {"enrich", "enriching"}) =>
          ((pc' = "raised" => idx >= Len(new_listings)) /\ rows' = rows)]_vars

\* The positions of the log that hold an event of one of the kinds.
At(kinds) == {k \in DOMAIN events : events[k].ev \in kinds}

\* The listings of the events of one kind, in the order of the log.
IdsOf(kind) ==
    LET of_kind == SelectSeq(events, LAMBDA e : e.ev = kind /\ e.id # 0)
    IN  [k \in DOMAIN of_kind |-> of_kind[k].id]

IsPrefix(p, q) == Len(p) <= Len(q) /\ \A k \in DOMAIN p : p[k] = q[k]

\* C29: in the log of a pass every upsert comes before the one mark_delisted;
\* mark_delisted is followed by its commit before the first enrichment round;
\* a call of enricher.enrich has ended before the next event; the rounds take
\* the listings in the order they were created; notifications come last,
\* after a round for every listing created.
C29_StagesInOrder ==
    /\ Cardinality(At({"mark_delisted"})) <= 1
    /\ \A u \in At({"upsert"}), m \in At({"mark_delisted"}) : u < m
    /\ \A r \in At({"enrich_listing", "enrich"}) :
           \E m \in At({"mark_delisted"}) : m + 1 < r /\ events[m + 1].ev = "commit"
    /\ \A e \in At({"enrich"}) :
           e < Len(events) =>
               /\ events[e + 1].ev \in {"enriched", "enrich_failed", "crashed"}
               /\ events[e + 1].ev # "crashed" => events[e + 1].id = events[e].id
    /\ IsPrefix(IdsOf("enrich_listing"), IdsOf("upsert"))
    /\ \A n \in At({"notify"}) :
           /\ n = Len(events)
           /\ IdsOf("enrich_listing") = IdsOf("upsert")

\* A pass that created two listings, enriched both and sent the notifications.
C29_Witness ==
    /\ pc = "done"
    /\ Len(IdsOf("upsert")) = 2
    /\ Cardinality(At({"enriched"})) = 2
    /\ events[Len(events)].ev = "notify"

\* C30: in a pass whose first page reported a total of 0, no step changes the
\* listings table or the amenity scores, and the fetch ends the pass.
C30_EmptyFirstPageChangesNothing ==
    [][(events' # <<>> /\ events'[1] = Event("fetch", 0)) =>
          (pc' = "done" /\ rows' = rows /\ amenity_scores' = amenity_scores)]_vars

\* A pass ended by a first page with total 0 while a listing that is active
\* and past the staleness window is in the table.
C30_Witness ==
    /\ pc = "done"
    /\ events = <<Event("fetch", 0)>>
    /\ \E i \in DOMAIN rows :
           /\ rows[i].status = "active"
           /\ rows[i].last_seen # None
           /\ should_delist(now, rows[i].last_seen)

----------------------------------------------------------------------------
(* Claims about upsert_pois_for_listing *)

\* The rows of the link table for the pair (listing_id, poi_id).
LinkRows(links, listing_id, poi_id) ==
    {row \in BagToSet(links) : row.listing_id = listing_id /\ row.poi_id = poi_id}

\* The distance_m of the last feature of pois that carries osm_id.
LastDistance(pois, osm_id) ==
    pois[CHOOSE k \in DOMAIN pois :
            /\ pois[k].osm_id = osm_id
            /\ \A m \in DOMAIN pois : pois[m].osm_id = osm_id => m <= k].distance_m

\* C9: after a call of upsert_pois_for_listing, whatever calls came before it,
\* each feature of the call has exactly one link row for (listing, POI), and the
\* row carries the distance the call gave for that osm_id (the last one, if the
\* call repeats it); no pair (listing, POI) ever has two link rows.
C9_OneLinkWithLatestDistance ==
    /\ \A a, b \in BagToSet(listing_pois) :
           /\ CopiesIn(a, listing_pois) = 1
           /\ (a.listing_id = b.listing_id /\ a.poi_id = b.poi_id) => a = b
    /\ poiCall.op = "returned" =>
           \A k \in DOMAIN poiCall.pois :
               LET found == LinkRows(listing_pois, poiCall.listing_id, poiCall.poi_ids[k])
               IN  /\ Cardinality(found) = 1
                   /\ \A row \in found :
                          /\ CopiesIn(row, listing_pois) = 1
                          /\ row.distance_m =
                                 LastDistance(poiCall.pois, poiCall.pois[k].osm_id)

\* A call with one feature has just returned for a listing that an earlier call
\* had linked to the same POI at another distance.
C9_Witness ==
    /\ poiCall.op = "returned"
    /\ Len(poiCall.pois) = 1
    /\ poiCall.updated = {poiCall.poi_ids[1]}
    /\ \E x \in linked : x.listing_id = poiCall.listing_id /\ x.osm_id = poiCall.pois[1].osm_id

\* C10: after any sequence of upsert_pois_for_listing calls no call has raised,
\* there is at most one POI row per osm_id, every link a call made points to the
\* POI row of the feature's osm_id, and two listings whose features carry the
\* same osm_id are linked to the same POI id.
C10_OnePoiPerOsmId ==
    /\ poiCall.op # "raised"
    /\ \A a, b \in DOMAIN points_of_interest :
           points_of_interest[a].osm_id = points_of_interest[b].osm_id => a = b
    /\ \A x \in linked :
           /\ x.poi_id \in DOMAIN points_of_interest
           /\ points_of_interest[x.poi_id].osm_id = x.osm_id
           /\ LinkRows(listing_pois, x.listing_id, x.poi_id) # {}
    /\ \A x, y \in linked : x.osm_id = y.osm_id => x.poi_id = y.poi_id

\* Two listings are linked to the POI of one osm_id, and the call that has just
\* returned carried that osm_id twice.
C10_Witness ==
    /\ poiCall.op = "returned"
    /\ Len(poiCall.pois) = 2
    /\ poiCall.pois[1].osm_id = poiCall.pois[2].osm_id
    /\ \E x, y \in linked :
           /\ x.listing_id # y.listing_id
           /\ x.osm_id = poiCall.pois[1].osm_id
           /\ y.osm_id = x.osm_id
           /\ y.listing_id = poiCall.listing_id

\* C11: when two transactions call upsert_pois_for_listing at once with the same
\* not-yet-stored osm_id, no call raises, and afterwards one POI row has the osm_id.
C11_RaceSurfacesNoError ==
    /\ \A t \in Txns : tx[t].pc # "raised"
    /\ \A a, b \in DOMAIN tx_pois :
           (/\ tx_pois[a].state = "committed"
            /\ tx_pois[b].state = "committed"
            /\ tx_pois[a].row.osm_id = tx_pois[b].row.osm_id) => a = b

----------------------------------------------------------------------------
(* Claims about _query_overpass and enrich *)

Finished(c) == task[c].pc = "done"

Posted(c) == task[c].posted_at # None

\* C12: whatever the POST ends with, _query_overpass raises no exception to its
\* caller, and on a failure (every outcome but a JSON body with elements) its
\* caller gets the empty list.
C12_QueryNeverRaises ==
    \A c \in CategorySet :
        Finished(c) =>
            /\ ~task[c].raised
            /\ task[c].outcome.kind # "ok" => task[c].result = <<>>

\* C13: _query_overpass posts exactly once per call whatever the outcome, sleeps
\* before no request, and a request that failed with an error, a timeout or an
\* error status gives the empty list in the step that handles the failure.
C13_OnePostNoRetry ==
    \A c \in CategorySet :
        /\ task[c].pc # "new" => task[c].posts = 1 /\ task[c].slept = 0
        /\ (task[c].pc = "responded" /\ raises_http_error(task[c].outcome)) =>
               LET r == query_overpass(c, task[c].outcome, task[c].posts)
               IN  r.retry_in = None /\ r.result = <<>> /\ ~r.raised
        /\ (Finished(c) /\ raises_http_error(task[c].outcome)) =>
               task[c].result = <<>> /\ ~task[c].raised

\* A query that got no response in time has returned, after the loop had waited.
C13_Witness ==
    \E c \in CategorySet :
        /\ Finished(c)
        /\ task[c].outcome.kind = "timeout"
        /\ task[c].posts = 1
        /\ loop_time > task[c].posted_at

ListOf(summary, c) ==
    IF c = "park" THEN summary.parks
    ELSE IF c = "coffee" THEN summary.coffee_shops
    ELSE summary.dog_parks

NearestOf(summary, c) ==
    IF c = "park" THEN summary.nearest_park_m
    ELSE IF c = "coffee" THEN summary.nearest_coffee_m
    ELSE summary.nearest_dog_park_m

LimitOf(c) ==
    IF c = "park" THEN ParksLimit
    ELSE IF c = "coffee" THEN CoffeeShopsLimit
    ELSE DogParksLimit

\* The elements the response of c's own query had that have an id and a geometry.
UsableOf(c) ==
    IF task[c].outcome.kind = "ok"
    THEN {e \in {Element(c, i) : i \in 1..task[c].outcome.n} : e.id # 0 /\ e.has_geometry}
    ELSE {}

Ascending(features) ==
    \A j, k \in DOMAIN features : j < k => features[j].distance_m <= features[k].distance_m

\* C16: enrich never raises; when the query of a category fails, whatever the
\* failure, the summary returned has an empty list and a null nearest distance
\* for it, the other categories filled in, and the score computed from them.
C16_EnrichNeverRaises ==
    /\ enrich_pc # "raised"
    /\ enrich_pc = "returned" =>
           /\ \A c \in CategorySet :
                  task[c].outcome.kind # "ok" =>
                      ListOf(data, c) = <<>> /\ NearestOf(data, c) = None
           /\ data.walkability_score = calculate_walkability_score(data)

\* C17: when a task goes on after its response, the requests of all three
\* categories have been posted: no request waits for another category's response.
C17_AllPostedBeforeAnyResumes ==
    (\E c \in CategorySet : Finished(c)) => \A c \in CategorySet : task[c].posts >= 1

\* One category has been answered and has returned while the other two still
\* wait for their responses.
C17_Witness ==
    \E c \in CategorySet :
        /\ Finished(c)
        /\ \A o \in CategorySet \ {c} : task[o].pc = "posted"
        /\ loop_time > called_at

\* C18: whatever the order in which the three queries end, each list of the
\* summary is ascending in distance_m and holds only features of the elements
\* that the category's own query returned.
C18_SortedOwnFeatures ==
    enrich_pc = "returned" =>
        \A c \in CategorySet :
            /\ Ascending(ListOf(data, c))
            /\ \A k \in DOMAIN ListOf(data, c) :
                   /\ ListOf(data, c)[k].type = TypeOf(c)
                   /\ \E e \in UsableOf(c) :
                          /\ e.id = ListOf(data, c)[k].osm_id
                          /\ e.distance_m = ListOf(data, c)[k].distance_m

\* enrich has returned three lists of different lengths after the queries ended
\* in the reverse of the order they were started in.
C18_Witness ==
    /\ enrich_pc = "returned"
    /\ completion = <<"dog_park", "coffee", "park">>
    /\ Len(data.parks) = 2
    /\ Len(data.coffee_shops) = CoffeeShopsLimit
    /\ Len(data.dog_parks) = DogParksLimit
    /\ data.coffee_shops[1].distance_m < data.coffee_shops[CoffeeShopsLimit].distance_m

\* C19: the summary holds at most 10 parks, 10 coffee shops and 5 dog parks;
\* each list holds the usable features of its category, nearest first, and none
\* that is farther than one left out; each nearest distance is that of the first
\* element of its list, and null exactly when the category had no usable feature.
C19_TopNNearestFirst ==
    enrich_pc = "returned" =>
        \A c \in CategorySet :
            LET list == ListOf(data, c)
                kept == {list[k].osm_id : k \in DOMAIN list}
            IN  /\ Len(list) <= LimitOf(c)
                /\ Len(list) = Min2(LimitOf(c), Cardinality(UsableOf(c)))
                /\ Cardinality(kept) = Len(list)
                /\ kept \subseteq {e.id : e \in UsableOf(c)}
                /\ Ascending(list)
                /\ \A e \in UsableOf(c) :
                       e.id \notin kept =>
                           \A k \in DOMAIN list : list[k].distance_m <= e.distance_m
                /\ NearestOf(data, c) = None <=> UsableOf(c) = {}
                /\ list # <<>> => NearestOf(data, c) = list[1].distance_m
                /\ \A e \in UsableOf(c) : NearestOf(data, c) <= e.distance_m

\* enrich has returned 10 of 11 usable parks and 5 of 6 usable dog parks, and no
\* coffee shop.
C19_Witness ==
    /\ enrich_pc = "returned"
    /\ Cardinality(UsableOf("park")) > ParksLimit
    /\ Len(data.parks) = ParksLimit
    /\ Cardinality(UsableOf("dog_park")) = DogParksLimit + 1
    /\ Len(data.dog_parks) = DogParksLimit
    /\ data.coffee_shops = <<>>
    /\ data.nearest_coffee_m = None

----------------------------------------------------------------------------
(* Claims about calculate_walkability_score *)

\* C20: for every summary, the fullest one at the closest distances included,
\* calculate_walkability_score returns an integer from 0 to 100.
C20_ScoreWithin0And100 == scored => score \in 0..100

\* The fullest summary, every category at its closest, has been scored.
C20_Witness ==
    /\ scored
    /\ score_arg.nearest_park_m = 0
    /\ score_arg.nearest_coffee_m = 150
    /\ score_arg.nearest_dog_park_m = 500
    /\ count_within(score_arg.parks, 1000) = MaxAmenities
    /\ count_within(score_arg.coffee_shops, 500) = MaxAmenities
    /\ Len(score_arg.dog_parks) = MaxAmenities \div 2
    /\ score = 90

\* a is a distance and is at least as close as b (no distance is the farthest).
AsCloseAs(a, b) == a # None /\ (b = None \/ a <= b)

\* C21: with the lists held fixed, replacing one nearest distance by a closer
\* one (a null by any distance, a distance by a smaller one) never lowers the
\* score.
C21_CloserNeverWorse ==
    scored =>
        /\ \A dist \in ParkDistances :
               AsCloseAs(dist, score_arg.nearest_park_m) =>
                   calculate_walkability_score([score_arg EXCEPT !.nearest_park_m = dist])
                       >= score
        /\ \A dist \in CoffeeDistances :
               AsCloseAs(dist, score_arg.nearest_coffee_m) =>
                   calculate_walkability_score([score_arg EXCEPT !.nearest_coffee_m = dist])
                       >= score
        /\ \A dist \in DogParkDistances :
               AsCloseAs(dist, score_arg.nearest_dog_park_m) =>
                   calculate_walkability_score([score_arg EXCEPT !.nearest_dog_park_m = dist])
                       >= score

\* A scored summary whose park is one metre past a band and which has no dog
\* park: a park one metre closer, and any dog park in range, score higher.
C21_Witness ==
    /\ scored
    /\ score_arg.nearest_park_m = 201
    /\ score_arg.nearest_coffee_m = 300
    /\ score_arg.nearest_dog_park_m = None
    /\ calculate_walkability_score([score_arg EXCEPT !.nearest_park_m = 200]) = score + 5
    /\ calculate_walkability_score([score_arg EXCEPT !.nearest_dog_park_m = 2000]) = score + 15

\* The points of the first band of `bands` (pairs <<limit, points>>, nearest
\* band first) that holds the distance; 0 for a null or out-of-band distance.
band_points(bands, dist) ==
    IF dist = None \/ \A k \in DOMAIN bands : dist > bands[k][1] THEN 0
    ELSE bands[CHOOSE k \in DOMAIN bands :
                   /\ dist <= bands[k][1]
                   /\ \A j \in 1..(k - 1) : dist > bands[j][1]][2]

in_range(dist, radius) == dist # None /\ dist <= radius

\* The formula of the scorer as stated: three bands, two list bonuses, one
\* combination bonus, capped at 100.
reference_score(s) ==
    LET park == in_range(s.nearest_park_m, 1000)
        coffee == in_range(s.nearest_coffee_m, 500)
        dog_park == in_range(s.nearest_dog_park_m, 2000)
        parks_in_list ==
            Cardinality({k \in DOMAIN s.parks :
                "distance_m" \in DOMAIN s.parks[k] /\ s.parks[k].distance_m <= 1000})
        cafes_in_list ==
            Cardinality({k \in DOMAIN s.coffee_shops :
                "distance_m" \in DOMAIN s.coffee_shops[k]
                    /\ s.coffee_shops[k].distance_m <= 500})
        combination ==
            CASE park /\ coffee /\ dog_park -> 20
              [] park /\ coffee /\ ~dog_park -> 10
              [] (park \/ coffee) /\ ~(park /\ coffee) -> 5
              [] OTHER -> 0
        points ==
            band_points(<<<<200, 20>>, <<500, 15>>, <<1000, 10>>>>, s.nearest_park_m)
                + Min2(2 * parks_in_list, 10)
                + band_points(<<<<150, 15>>, <<300, 12>>, <<500, 8>>>>, s.nearest_coffee_m)
                + Min2(2 * cafes_in_list, 10)
                + band_points(<<<<500, 15>>, <<1000, 10>>, <<2000, 5>>>>, s.nearest_dog_park_m)
                + combination
    IN  IF points > 100 THEN 100 ELSE points

\* C22: the value calculate_walkability_score returns is the value of the
\* reference formula, and the empty summary scores 0.
C22_EqualsReferenceFormula ==
    scored =>
        /\ score = reference_score(score_arg)
        /\ score_arg = NoAmenityData => score = 0

\* A scored summary with all three categories in range (the bonus of 20), a
\* list bonus at its cap and one below it.
C22_Witness ==
    /\ scored
    /\ score_arg.nearest_park_m = 500
    /\ score_arg.nearest_coffee_m = 151
    /\ score_arg.nearest_dog_park_m = 1001
    /\ count_within(score_arg.parks, 1000) = 6
    /\ count_within(score_arg.coffee_shops, 500) = 1
    /\ Len(score_arg.coffee_shops) = 3
    /\ score = 15 + 10 + 12 + 2 + 5 + 20

----------------------------------------------------------------------------
(* Claims about _extract_geometry and get_nearby_* *)

\* Every field the element has is whole: both coordinates or neither, the four
\* sides of the box, both parts of the center.
WholeFields(el) ==
    /\ "lat" \in DOMAIN el <=> "lon" \in DOMAIN el
    /\ "bounds" \in DOMAIN el => DOMAIN el.bounds = {"minlat", "maxlat", "minlon", "maxlon"}
    /\ "center" \in DOMAIN el => DOMAIN el.center = {"lat", "lon"}

\* What the priority order as stated prescribes for an element.
prescribed(el) ==
    LET has_points == "geometry" \in DOMAIN el /\ Len(el.geometry) >= 1
        n == Len(el.geometry)
        position(pt) == <<Frac(pt.lon, 1), Frac(pt.lat, 1)>>
        ring == [k \in 1..n |-> position(el.geometry[k])]
                    \o (IF el.geometry[1] # el.geometry[n]
                        THEN <<position(el.geometry[1])>> ELSE <<>>)
        mean_lat == Frac(sum([k \in 1..n |-> el.geometry[k].lat]), n)
        mean_lng == Frac(sum([k \in 1..n |-> el.geometry[k].lon]), n)
        mid_lat == Frac(el.bounds.minlat + el.bounds.maxlat, 2)
        mid_lng == Frac(el.bounds.minlon + el.bounds.maxlon, 2)
    IN  IF has_points THEN returned(Polygon(ring), mean_lat, mean_lng)
        ELSE IF el.type = "relation" /\ "bounds" \in DOMAIN el
            THEN returned(Point(mid_lng, mid_lat), mid_lat, mid_lng)
        ELSE IF el.type = "node" /\ "lat" \in DOMAIN el /\ "lon" \in DOMAIN el
            THEN returned(Point(Frac(el.lon, 1), Frac(el.lat, 1)),
                          Frac(el.lat, 1), Frac(el.lon, 1))
        ELSE IF "center" \in DOMAIN el
            THEN returned(Point(Frac(el.center.lon, 1), Frac(el.center.lat, 1)),
                          Frac(el.center.lat, 1), Frac(el.center.lon, 1))
        ELSE returned(NoGeometry, NoCoord, NoCoord)

\* C23: for every element whose fields are whole, _extract_geometry returns
\* what the priority order prescribes: boundary points, else a relation's
\* bounds, else a node's coordinates, else the center, else three nulls.
C23_ExtractsByPriority ==
    extracted /\ WholeFields(raw_el) => extraction = prescribed(raw_el)

\* The element has an id and a geometry can be extracted from it: boundary
\* points, a relation's whole box, a node's two coordinates or a whole center.
HasIdAndGeometry(el) ==
    /\ "id" \in DOMAIN el
    /\ \/ "geometry" \in DOMAIN el /\ Len(el.geometry) >= 1
       \/ el.type = "relation" /\ "bounds" \in DOMAIN el
              /\ DOMAIN el.bounds = {"minlat", "maxlat", "minlon", "maxlon"}
       \/ el.type = "node" /\ "lat" \in DOMAIN el /\ "lon" \in DOMAIN el
       \/ "center" \in DOMAIN el /\ DOMAIN el.center = {"lat", "lon"}

\* C24: get_nearby_* never raises, and returns the elements of the response
\* that have an id and extractable geometry, whatever else the response holds.
C24_DropsUnusableKeepsUsable ==
    nearby_done =>
        /\ ~nearby.raised
        /\ {nearby.features[k].osm_id : k \in DOMAIN nearby.features}
               = {response[k].id : k \in {j \in DOMAIN response : HasIdAndGeometry(response[j])}}

----------------------------------------------------------------------------
(* Claims about fetch_page and fetch_single *)

\* C25: a call of fetch_page or fetch_single in which a request failed in
\* transport, the token request included, has not raised: it returned ([], 0),
\* respectively null.
C25_NeverRaisesOnTransportFailure ==
    fetch_pc = "ended"
        /\ (transport_failure(fetch_out.token) \/ transport_failure(fetch_out.search))
    => /\ ~fetch_out.raised
       /\ fetch_out.listings = <<>>
       /\ fetch_out.total = 0
       /\ ~fetch_out.found

\* The fetches of the pass so far.
Fetches == Len(SelectSeq(events, LAMBDA e : e.ev = "fetch"))

\* At least 80% of the page already existed.
MostlyExisting == (page_size - page_new_count) * 100 >= 80 * page_size

\* While a page is processed and when the loop is left: total_pages is
\* min(total/200 rounded down + 1, 100), and the pages fetched are 1..page.
PagesInTurn ==
    /\ Fetches <= 100
    /\ pc \in {"upsert", "mark"} =>
          /\ total_pages = (IF total \div 200 + 1 <= 100 THEN total \div 200 + 1 ELSE 100)
          /\ Fetches = page
          /\ page <= total_pages
    /\ (pc = "mark" /\ full_scrape) => page = total_pages

\* C28: after a page that is not the last one the loop stops if and only if
\* full_scrape is false and the page was non-empty with at least 80% of its
\* listings already existing, and goes on to the next page otherwise; after
\* the last page it stops; a full scrape fetches every page from 1 to
\* total_pages = min(total/200 rounded down + 1, 100), and no pass fetches
\* more than 100 times.
C28_StopsEarlyOnlyAt80Percent ==
    [][(/\ PagesInTurn'
        /\ (pc = "upsert" /\ pc' # "upsert") =>
               /\ page < total_pages =>
                      (pc' = "mark" <=> (~full_scrape /\ page_size > 0 /\ MostlyExisting))
               /\ page >= total_pages => pc' = "mark"
               /\ pc' = "mark" => page' = page
               /\ pc' # "mark" => (pc' = "fetch" /\ page' = page + 1))]_vars

\* An incremental pass over a source of more than 100 pages has stopped
\* before the last page after a page of which exactly 80% existed.
C28_Witness ==
    /\ pc = "mark"
    /\ ~full_scrape
    /\ total = 25000
    /\ total_pages = 100
    /\ page < total_pages
    /\ page_size = 5
    /\ page_new_count = 1

====
